---- MODULE Spec2Model ----
(***************************************************************************)
(* The "library runtime" idiom of the two integration fixtures              *)
(* (tests/Fixtures/Integration/math_library.c and string_utils.c): one     *)
(* error register per library, fixed-capacity collections built by hand    *)
(* over malloc'ed buffers, and two callback hooks.                          *)
(*                                                                         *)
(* Every C function is an operator that computes, from the current state   *)
(* and its arguments, a result record: the returned value (ret), the       *)
(* sequence of values it assigns to last_error in program order (writes),  *)
(* and the memory it leaves behind.  Every action is one call of one       *)
(* function by the single caller thread (with the free of what the call    *)
(* returned, where test_string.c frees it), or the caller's return to      *)
(* main.  math_string_reverse has no caller that frees its result: the     *)
(* block it returns stays live.                                            *)
(***************************************************************************)
EXTENDS Integers, Sequences, FiniteSets, TLC

\* ------------------------------------------------------------------ bounds
MaxCap == 2          \* largest capacity the caller passes to a create
MaxLen == 2          \* longest int buffer handed to the array functions
MaxSort == 3         \* longest int buffer handed to the sort
MaxParse == 2        \* longest string handed to string_parse_int
MaxHeld == 1         \* most reversed strings the caller holds at once

\* -------------------------------------------------------- program constants
MATH_SUCCESS == 0
MATH_ERROR_NULL_POINTER == -1
MATH_ERROR_INVALID_ARGUMENT == -2
MATH_ERROR_DIVISION_BY_ZERO == -3
MATH_ERROR_OUT_OF_MEMORY == -4
MATH_ERROR_INDEX_OUT_OF_BOUNDS == -5

STRING_SUCCESS == 0
STRING_ERROR_NULL_POINTER == -1
STRING_ERROR_INVALID_ARGUMENT == -2
STRING_ERROR_OUT_OF_MEMORY == -3
STRING_ERROR_INDEX_OUT_OF_BOUNDS == -4
STRING_ERROR_PARSE_ERROR == -5

NULL == 0
NUL == 0             \* the terminating byte '\0'

\* ------------------------------------------------------------------- state
VARIABLES
    heap,               \* malloc's arena: address -> what lives there ("free" if nothing)
    chars,              \* the bytes behind every char* the program can hold
    math_last_error,    \* math_library.c: static MathError last_error
    string_last_error,  \* string_utils.c: static StringError last_error
    parr,               \* the caller's PointArray* and the object behind it
    sarr,               \* the caller's StringArray* and the object behind it
    padded,             \* points given to the successful math_add_point calls, in order
    sadded,             \* strings given to the successful string_array_add calls, in order
    ub,                 \* TRUE once a call freed what is not a live allocation
    test,               \* the program that makes the calls: test_math.c or test_string.c
    call                \* the call that has just returned ("main" between two calls)

vars == <<heap, chars, math_last_error, string_last_error, parr, sarr,
          padded, sadded, ub, test, call>>

\* The program linked with the two libraries ("both") makes every call the two
\* test programs make, with fewer arguments to choose from: short buffers,
\* capacities of at most one, one literal.
Small == test = "both"

\* ------------------------------------------------------------------ memory
\* The addresses malloc hands out.  The arena is large enough for everything the
\* caller can hold at once: a PointArray and its buffer, a StringArray, its
\* buffer and MaxCap stored copies, one string a call has just returned and
\* the MaxHeld reversed strings.
\* An allocation therefore fails only when malloc itself fails (fail below),
\* never because the model ran out of addresses.
HeapSize == MaxCap + 5 + MaxHeld
Addrs == 1..HeapSize
\* The caller's own string buffer lives outside malloc's arena.
CallerAddr == HeapSize + 1

Min(S) == CHOOSE a \in S : \A b \in S : a <= b
FreeAddrs(h) == {a \in Addrs : h[a] = "free"}

\* malloc: NULL when the allocation fails, otherwise an address that is not in
\* use.
Malloc(h, fail) ==
    IF fail THEN NULL ELSE Min(FreeAddrs(h))
\* malloc again: which unused address it returns is its own business.  The
\* blocks that are never freed get the highest one, so that where the
\* collections live does not depend on the strings made before them.
MallocHigh(h, fail) ==
    IF fail THEN NULL ELSE CHOOSE a \in FreeAddrs(h) : \A b \in FreeAddrs(h) : b <= a

\* The arena has n addresses to hand out: every allocating call is made with
\* room for all the blocks it can ask for.
Room(n) == Cardinality(FreeAddrs(heap)) >= n

\* The arena after malloc returned a (a # NULL) for an object of type tag.
Allocated(h, a, tag) == [h EXCEPT ![a] = tag]

\* free(a): releasing an address that holds nothing is a double free.
Freed(h, a) == [h EXCEPT ![a] = "free"]
BadFree(h, a) == a \notin Addrs \/ h[a] = "free"

\* The arena after free() was called on each pointer of ps, in order; free(NULL)
\* does nothing.
RECURSIVE FreeAll(_, _)
FreeAll(h, ps) ==
    IF ps = <<>> THEN h
    ELSE FreeAll(IF Head(ps) \in Addrs THEN Freed(h, Head(ps)) ELSE h, Tail(ps))

\* TRUE when calling free() on each pointer of ps, in order, releases something
\* that is not a live allocation (a double free, or a pointer malloc never gave).
RECURSIVE AnyBadFree(_, _)
AnyBadFree(h, ps) ==
    IF ps = <<>> THEN FALSE
    ELSE \/ Head(ps) # NULL /\ BadFree(h, Head(ps))
         \/ AnyBadFree(IF Head(ps) \in Addrs THEN Freed(h, Head(ps)) ELSE h, Tail(ps))

\* The register after a call that assigned the values ws to it, in order.
Register(old, ws) == IF ws = <<>> THEN old ELSE ws[Len(ws)]

\* ------------------------------------------------------------- Point2D
\* The caller's Point2D objects; a const Point2D* is an index into them.
CallerPoints == << [x |-> 1, y |-> 2], [x |-> 3, y |-> 4] >>
PointPtrs == {NULL} \cup DOMAIN CallerPoints
\* What malloc leaves in a slot nobody has written.
UninitPoint == [uninit |-> TRUE]

\* A PointArray* / StringArray* that points at nothing, as an object.
NoArray == [self |-> NULL, buf |-> NULL, count |-> 0, capacity |-> 0, elems |-> <<>>]
Live(arr) == arr.self # NULL

\* A Point2D* into a points buffer: the buffer's address and the element's index.
NullElem == [base |-> NULL, off |-> 0]

\* ------------------------------------------------- math_library.c: PointArray
\* math_create_point_array without free(array) when the buffer cannot be had.
math_create_point_array_leaky(initial_capacity, failAt) ==
    IF initial_capacity = 0
    THEN [ret |-> NULL, writes |-> <<MATH_ERROR_INVALID_ARGUMENT>>,
          heap |-> heap, obj |-> NoArray]
    ELSE LET array == Malloc(heap, failAt = 1) IN
         IF array = NULL
         THEN [ret |-> NULL, writes |-> <<MATH_ERROR_OUT_OF_MEMORY>>,
               heap |-> heap, obj |-> NoArray]
         ELSE LET h1 == Allocated(heap, array, "PointArray")
                  points == Malloc(h1, failAt = 2) IN
              IF points = NULL
              THEN [ret |-> NULL, writes |-> <<MATH_ERROR_OUT_OF_MEMORY>>,
                    heap |-> h1, obj |-> NoArray]
              ELSE [ret |-> array, writes |-> <<MATH_SUCCESS>>,
                    heap |-> Allocated(h1, points, "Point2D[]"),
                    obj |-> [self |-> array, buf |-> points, count |-> 0,
                             capacity |-> initial_capacity,
                             elems |-> [i \in 1..initial_capacity |-> UninitPoint]]]

\* PointArray* math_create_point_array(size_t initial_capacity); failAt numbers
\* the malloc of this call that returns NULL (0: none does).
math_create_point_array(initial_capacity, failAt) ==
    IF initial_capacity = 0
    THEN [ret |-> NULL, writes |-> <<MATH_ERROR_INVALID_ARGUMENT>>,
          heap |-> heap, obj |-> NoArray]
    ELSE LET array == Malloc(heap, failAt = 1) IN
         IF array = NULL
         THEN [ret |-> NULL, writes |-> <<MATH_ERROR_OUT_OF_MEMORY>>,
               heap |-> heap, obj |-> NoArray]
         ELSE LET h1 == Allocated(heap, array, "PointArray")
                  points == Malloc(h1, failAt = 2) IN
              IF points = NULL
              THEN [ret |-> NULL, writes |-> <<MATH_ERROR_OUT_OF_MEMORY>>,
                    heap |-> Freed(h1, array), obj |-> NoArray]
              ELSE [ret |-> array, writes |-> <<MATH_SUCCESS>>,
                    heap |-> Allocated(h1, points, "Point2D[]"),
                    obj |-> [self |-> array, buf |-> points, count |-> 0,
                             capacity |-> initial_capacity,
                             elems |-> [i \in 1..initial_capacity |-> UninitPoint]]]

\* void math_destroy_point_array(PointArray* array)
math_destroy_point_array(array) ==
    IF array = NULL
    THEN [writes |-> <<MATH_ERROR_NULL_POINTER>>, heap |-> heap, frees |-> <<>>,
          obj |-> parr]
    ELSE LET frees == (IF parr.buf # NULL THEN <<parr.buf>> ELSE <<>>) \o <<array>> IN
         [writes |-> <<MATH_SUCCESS>>, heap |-> FreeAll(heap, frees), frees |-> frees,
          obj |-> NoArray]

\* math_add_point without the assignment of MATH_SUCCESS on its last path.
math_add_point_silent(array, point) ==
    IF array = NULL \/ point = NULL
    THEN [ret |-> -1, writes |-> <<MATH_ERROR_NULL_POINTER>>, obj |-> parr]
    ELSE IF parr.count >= parr.capacity
    THEN [ret |-> -1, writes |-> <<MATH_ERROR_INDEX_OUT_OF_BOUNDS>>, obj |-> parr]
    ELSE [ret |-> 0, writes |-> <<>>,
          obj |-> [parr EXCEPT !.elems[parr.count + 1] = CallerPoints[point],
                               !.count = parr.count + 1]]

\* math_add_point that stores the point one slot too far.
math_add_point_shifted(array, point) ==
    IF array = NULL \/ point = NULL
    THEN [ret |-> -1, writes |-> <<MATH_ERROR_NULL_POINTER>>, obj |-> parr]
    ELSE IF parr.count >= parr.capacity
    THEN [ret |-> -1, writes |-> <<MATH_ERROR_INDEX_OUT_OF_BOUNDS>>, obj |-> parr]
    ELSE [ret |-> 0, writes |-> <<MATH_SUCCESS>>,
          obj |-> [parr EXCEPT !.elems = [i \in 1..Len(parr.elems) |->
                                            IF i = parr.count + 2 THEN CallerPoints[point]
                                            ELSE parr.elems[i]],
                               !.count = parr.count + 1]]

\* math_add_point without its capacity check.
math_add_point_unchecked(array, point) ==
    IF array = NULL \/ point = NULL
    THEN [ret |-> -1, writes |-> <<MATH_ERROR_NULL_POINTER>>, obj |-> parr]
    ELSE [ret |-> 0, writes |-> <<MATH_SUCCESS>>,
          obj |-> [parr EXCEPT !.elems = [i \in 1..Len(parr.elems) |->
                                            IF i = parr.count + 1 THEN CallerPoints[point]
                                            ELSE parr.elems[i]],
                               !.count = parr.count + 1]]

\* int math_add_point(PointArray* array, const Point2D* point)
math_add_point(array, point) ==
    IF array = NULL \/ point = NULL
    THEN [ret |-> -1, writes |-> <<MATH_ERROR_NULL_POINTER>>, obj |-> parr]
    ELSE IF parr.count >= parr.capacity
    THEN [ret |-> -1, writes |-> <<MATH_ERROR_INDEX_OUT_OF_BOUNDS>>, obj |-> parr]
    ELSE [ret |-> 0, writes |-> <<MATH_SUCCESS>>,
          obj |-> [parr EXCEPT !.elems[parr.count + 1] = CallerPoints[point],
                               !.count = parr.count + 1]]

\* math_get_point that checks the index against the capacity, not the count.
math_get_point_capacity(array, index) ==
    IF array = NULL
    THEN [ret |-> NullElem, writes |-> <<MATH_ERROR_NULL_POINTER>>]
    ELSE IF index >= parr.capacity
    THEN [ret |-> NullElem, writes |-> <<MATH_ERROR_INDEX_OUT_OF_BOUNDS>>]
    ELSE [ret |-> [base |-> parr.buf, off |-> index], writes |-> <<MATH_SUCCESS>>]

\* Point2D* math_get_point(const PointArray* array, size_t index)
math_get_point(array, index) ==
    IF array = NULL
    THEN [ret |-> NullElem, writes |-> <<MATH_ERROR_NULL_POINTER>>]
    ELSE IF index >= parr.count
    THEN [ret |-> NullElem, writes |-> <<MATH_ERROR_INDEX_OUT_OF_BOUNDS>>]
    ELSE [ret |-> [base |-> parr.buf, off |-> index], writes |-> <<MATH_SUCCESS>>]

\* math_get_point_count that sets MATH_SUCCESS first and the error afterwards.
math_get_point_count_preset(array) ==
    IF array = NULL
    THEN [ret |-> 0, writes |-> <<MATH_SUCCESS, MATH_ERROR_NULL_POINTER>>]
    ELSE [ret |-> parr.count, writes |-> <<MATH_SUCCESS>>]

\* size_t math_get_point_count(const PointArray* array)
math_get_point_count(array) ==
    IF array = NULL
    THEN [ret |-> 0, writes |-> <<MATH_ERROR_NULL_POINTER>>]
    ELSE [ret |-> parr.count, writes |-> <<MATH_SUCCESS>>]

\* MathError math_get_last_error(void)
math_get_last_error == [ret |-> math_last_error, writes |-> <<>>]

\* const char* math_get_error_message(MathError error)
math_get_error_message(error) ==
    [ret |-> CASE error = MATH_SUCCESS -> "Success"
               [] error = MATH_ERROR_NULL_POINTER -> "Null pointer error"
               [] error = MATH_ERROR_INVALID_ARGUMENT -> "Invalid argument"
               [] error = MATH_ERROR_DIVISION_BY_ZERO -> "Division by zero"
               [] error = MATH_ERROR_OUT_OF_MEMORY -> "Out of memory"
               [] error = MATH_ERROR_INDEX_OUT_OF_BOUNDS -> "Index out of bounds"
               [] OTHER -> "Unknown error",
     writes |-> <<>>]

\* --------------------------------------------------------------- C strings
\* The contents the caller can give its string buffer: "ab", "b" (with a stale
\* byte behind the terminator) and "".
CallerBufs ==
    IF Small THEN { <<97, 98, NUL>> }
    ELSE { <<97, 98, NUL>>, <<98, NUL, 97>>, <<NUL, 97, NUL>> }
\* A char* nobody has assigned: neither NULL nor an address.
Uninit == NULL - 1

\* size_t strlen(const char*): the number of bytes before the first '\0'.
strlen(bytes) == Min({i \in DOMAIN bytes : bytes[i] = NUL}) - 1
\* What strcpy(dst, src) leaves in dst: src up to and including its first '\0'.
strcpy(src) == SubSeq(src, 1, strlen(src) + 1)
\* The string a char* denotes, without its terminator.
CStr(bytes) == SubSeq(bytes, 1, strlen(bytes))

\* ---------------------------------------------- string_utils.c: StringArray
\* string_duplicate that hands back its argument instead of a copy.
string_duplicate_alias(str, failAt) ==
    IF str = NULL
    THEN [ret |-> NULL, writes |-> <<STRING_ERROR_NULL_POINTER>>,
          heap |-> heap, chars |-> chars]
    ELSE [ret |-> str, writes |-> <<STRING_SUCCESS>>, heap |-> heap, chars |-> chars]

\* char* string_duplicate(const char* str); failAt numbers the malloc of this
\* call that returns NULL (0: none does).
string_duplicate(str, failAt) ==
    IF str = NULL
    THEN [ret |-> NULL, writes |-> <<STRING_ERROR_NULL_POINTER>>,
          heap |-> heap, chars |-> chars]
    ELSE LET dup == Malloc(heap, failAt = 1) IN
         IF dup = NULL
         THEN [ret |-> NULL, writes |-> <<STRING_ERROR_OUT_OF_MEMORY>>,
               heap |-> heap, chars |-> chars]
         ELSE [ret |-> dup, writes |-> <<STRING_SUCCESS>>,
               heap |-> Allocated(heap, dup, "char[]"),
               chars |-> [chars EXCEPT ![dup] = strcpy(chars[str])]]

\* StringArray* string_array_create(size_t initial_capacity)
string_array_create(initial_capacity, failAt) ==
    IF initial_capacity = 0
    THEN [ret |-> NULL, writes |-> <<STRING_ERROR_INVALID_ARGUMENT>>,
          heap |-> heap, obj |-> NoArray]
    ELSE LET array == Malloc(heap, failAt = 1) IN
         IF array = NULL
         THEN [ret |-> NULL, writes |-> <<STRING_ERROR_OUT_OF_MEMORY>>,
               heap |-> heap, obj |-> NoArray]
         ELSE LET h1 == Allocated(heap, array, "StringArray")
                  strings == Malloc(h1, failAt = 2) IN
              IF strings = NULL
              THEN [ret |-> NULL, writes |-> <<STRING_ERROR_OUT_OF_MEMORY>>,
                    heap |-> Freed(h1, array), obj |-> NoArray]
              ELSE [ret |-> array, writes |-> <<STRING_SUCCESS>>,
                    heap |-> Allocated(h1, strings, "char*[]"),
                    obj |-> [self |-> array, buf |-> strings, count |-> 0,
                             capacity |-> initial_capacity,
                             elems |-> [i \in 1..initial_capacity |-> Uninit]]]

\* string_array_destroy without the loop over the stored strings.
string_array_destroy_shallow(array) ==
    IF array = NULL
    THEN [writes |-> <<STRING_ERROR_NULL_POINTER>>, heap |-> heap, chars |-> chars,
          frees |-> <<>>, obj |-> sarr]
    ELSE [writes |-> <<STRING_SUCCESS>>,
          heap |-> FreeAll(heap, <<sarr.buf, array>>),
          chars |-> chars,
          frees |-> <<sarr.buf, array>>,
          obj |-> NoArray]

\* void string_array_destroy(StringArray* array)
string_array_destroy(array) ==
    IF array = NULL
    THEN [writes |-> <<STRING_ERROR_NULL_POINTER>>, heap |-> heap, chars |-> chars,
          frees |-> <<>>, obj |-> sarr]
    ELSE LET frees == [i \in 1..sarr.count |-> sarr.elems[i]] \o <<sarr.buf, array>> IN
         [writes |-> <<STRING_SUCCESS>>,
          heap |-> FreeAll(heap, frees),
          chars |-> [a \in DOMAIN chars |->
                        IF \E i \in 1..Len(frees) : frees[i] = a THEN <<>> ELSE chars[a]],
          frees |-> frees,
          obj |-> NoArray]

\* string_array_add that does not look at what string_duplicate returned.
string_array_add_uncounted(array, str, failAt) ==
    IF array = NULL \/ str = NULL
    THEN [ret |-> -1, writes |-> <<STRING_ERROR_NULL_POINTER>>,
          heap |-> heap, chars |-> chars, obj |-> sarr]
    ELSE IF sarr.count >= sarr.capacity
    THEN [ret |-> -1, writes |-> <<STRING_ERROR_INDEX_OUT_OF_BOUNDS>>,
          heap |-> heap, chars |-> chars, obj |-> sarr]
    ELSE LET d == string_duplicate(str, failAt) IN
         [ret |-> 0, writes |-> d.writes \o <<STRING_SUCCESS>>,
          heap |-> d.heap, chars |-> d.chars,
          obj |-> [sarr EXCEPT !.elems[sarr.count + 1] = d.ret,
                               !.count = sarr.count + 1]]

\* string_array_add that doubles a full collection instead of refusing.
string_array_add_growing(array, str, failAt) ==
    IF array = NULL \/ str = NULL
    THEN [ret |-> -1, writes |-> <<STRING_ERROR_NULL_POINTER>>,
          heap |-> heap, chars |-> chars, obj |-> sarr]
    ELSE LET d == string_duplicate(str, failAt)
             room == IF sarr.count >= sarr.capacity
                     THEN [sarr EXCEPT !.capacity = 2 * sarr.capacity,
                                       !.elems = sarr.elems \o [i \in 1..sarr.capacity |-> Uninit]]
                     ELSE sarr
             stored == [room EXCEPT !.elems[sarr.count + 1] = d.ret] IN
         IF d.ret = NULL
         THEN [ret |-> -1, writes |-> d.writes,
               heap |-> d.heap, chars |-> d.chars, obj |-> stored]
         ELSE [ret |-> 0, writes |-> d.writes \o <<STRING_SUCCESS>>,
               heap |-> d.heap, chars |-> d.chars,
               obj |-> [stored EXCEPT !.count = sarr.count + 1]]

\* int string_array_add(StringArray* array, const char* str)
string_array_add(array, str, failAt) ==
    IF array = NULL \/ str = NULL
    THEN [ret |-> -1, writes |-> <<STRING_ERROR_NULL_POINTER>>,
          heap |-> heap, chars |-> chars, obj |-> sarr]
    ELSE IF sarr.count >= sarr.capacity
    THEN [ret |-> -1, writes |-> <<STRING_ERROR_INDEX_OUT_OF_BOUNDS>>,
          heap |-> heap, chars |-> chars, obj |-> sarr]
    ELSE LET d == string_duplicate(str, failAt)
             stored == [sarr EXCEPT !.elems[sarr.count + 1] = d.ret] IN
         IF d.ret = NULL
         THEN [ret |-> -1, writes |-> d.writes,
               heap |-> d.heap, chars |-> d.chars, obj |-> stored]
         ELSE [ret |-> 0, writes |-> d.writes \o <<STRING_SUCCESS>>,
               heap |-> d.heap, chars |-> d.chars,
               obj |-> [stored EXCEPT !.count = sarr.count + 1]]

\* char* string_array_get(const StringArray* array, size_t index)
string_array_get(array, index) ==
    IF array = NULL
    THEN [ret |-> NULL, writes |-> <<STRING_ERROR_NULL_POINTER>>]
    ELSE IF index >= sarr.count
    THEN [ret |-> NULL, writes |-> <<STRING_ERROR_INDEX_OUT_OF_BOUNDS>>]
    ELSE [ret |-> sarr.elems[index + 1], writes |-> <<STRING_SUCCESS>>]

\* string_array_size that answers with the capacity.
string_array_size_capacity(array) ==
    IF array = NULL
    THEN [ret |-> 0, writes |-> <<STRING_ERROR_NULL_POINTER>>]
    ELSE [ret |-> sarr.capacity, writes |-> <<STRING_SUCCESS>>]

\* size_t string_array_size(const StringArray* array)
string_array_size(array) ==
    IF array = NULL
    THEN [ret |-> 0, writes |-> <<STRING_ERROR_NULL_POINTER>>]
    ELSE [ret |-> sarr.count, writes |-> <<STRING_SUCCESS>>]

\* StringError string_get_last_error(void)
string_get_last_error == [ret |-> string_last_error, writes |-> <<>>]

\* const char* string_get_error_message(StringError error)
string_get_error_message(error) ==
    [ret |-> CASE error = STRING_SUCCESS -> "Success"
               [] error = STRING_ERROR_NULL_POINTER -> "Null pointer error"
               [] error = STRING_ERROR_INVALID_ARGUMENT -> "Invalid argument"
               [] error = STRING_ERROR_OUT_OF_MEMORY -> "Out of memory"
               [] error = STRING_ERROR_INDEX_OUT_OF_BOUNDS -> "Index out of bounds"
               [] error = STRING_ERROR_PARSE_ERROR -> "Parse error"
               [] OTHER -> "Unknown error",
     writes |-> <<>>]

\* ------------------------------------------------ string_utils.c: parsing
\* The bytes of the strings the caller has parsed: ' ', '-', '1' and 'a'.
ParseChars == {32, 45, 49, 97}
\* The string literals handed to string_parse_int, each with its terminator.
ParseBufs == {b \o <<NUL>> : b \in UNION {[1..n -> ParseChars] : n \in 0..MaxParse}}
\* The address of such a literal (a const char* is NULL or this).
LiteralAddr == HeapSize + 3
\* The address of a second literal handed to the same call.
Literal2Addr == HeapSize + 4

\* strtol: the white space it skips, from index i.
RECURSIVE SkipSpaces(_, _)
SkipSpaces(b, i) == IF b[i] = 32 THEN SkipSpaces(b, i + 1) ELSE i
\* strtol: the decimal digits it takes from index i, with the value so far.
RECURSIVE Digits(_, _, _)
Digits(b, i, acc) ==
    IF b[i] \in 48..57 THEN Digits(b, i + 1, acc * 10 + (b[i] - 48))
    ELSE [end |-> i, val |-> acc]
\* long strtol(str, &endptr, 10) on the bytes b: white space, an optional sign,
\* digits; with no digit nothing is consumed and endptr is str.
strtol(b) ==
    LET i == SkipSpaces(b, 1)
        j == IF b[i] \in {43, 45} THEN i + 1 ELSE i
        d == Digits(b, j, 0) IN
    IF d.end = j THEN [ret |-> 0, endptr |-> 1]
    ELSE [ret |-> IF b[i] = 45 THEN 0 - d.val ELSE d.val, endptr |-> d.end]

\* string_parse_int that hands back what strtol made of the start of the string.
string_parse_int_partial(str, bytes) ==
    IF str = NULL
    THEN [ret |-> 0, writes |-> <<STRING_ERROR_NULL_POINTER>>]
    ELSE LET p == strtol(bytes) IN
         IF bytes[p.endptr] # NUL
         THEN [ret |-> p.ret, writes |-> <<STRING_ERROR_PARSE_ERROR>>]
         ELSE [ret |-> p.ret, writes |-> <<STRING_SUCCESS>>]

\* int string_parse_int(const char* str); bytes is what str points at.
string_parse_int(str, bytes) ==
    IF str = NULL
    THEN [ret |-> 0, writes |-> <<STRING_ERROR_NULL_POINTER>>]
    ELSE LET p == strtol(bytes) IN
         IF bytes[p.endptr] # NUL
         THEN [ret |-> 0, writes |-> <<STRING_ERROR_PARSE_ERROR>>]
         ELSE [ret |-> p.ret, writes |-> <<STRING_SUCCESS>>]

\* ------------------------------------------- math_library.c: leaf operations
\* The caller's int buffers: every sequence of at most MaxLen of these values.
IntVals == {1, 2}
IntBufs == UNION {[1..n -> IntVals] : n \in 0..MaxLen}
\* The address of the caller's int buffer (an int* is NULL or this).
IntBufAddr == HeapSize + 2

\* A float or double with a rational value: numerator and denominator.
Ratio(n, d) == <<n, d>>
Zero == Ratio(0, 1)

\* float math_divide(float a, float b)
math_divide(a, b) ==
    IF b = 0
    THEN [ret |-> Zero, writes |-> <<MATH_ERROR_DIVISION_BY_ZERO>>]
    ELSE [ret |-> Ratio(a, b), writes |-> <<MATH_SUCCESS>>]

\* int math_add(int a, int b)
math_add(a, b) == [ret |-> a + b, writes |-> <<MATH_SUCCESS>>]

\* int math_subtract(int a, int b)
math_subtract(a, b) == [ret |-> a - b, writes |-> <<MATH_SUCCESS>>]

\* int math_multiply(int a, int b)
math_multiply(a, b) == [ret |-> a * b, writes |-> <<MATH_SUCCESS>>]

\* pow(x, y) of <math.h> for an integral x and an integral y >= 0; pow(x, 0) is 1
\* for every x.
RECURSIVE pow(_, _)
pow(x, y) == IF y = 0 THEN 1 ELSE x * pow(x, y - 1)

\* double math_power(double base, double exponent)
math_power(base, exponent) ==
    [ret |-> Ratio(pow(base, exponent), 1), writes |-> <<MATH_SUCCESS>>]

\* sqrt(v) of <math.h> for a v that is the square of an integer.
sqrt(v) == CHOOSE r \in 0..v : r * r = v

\* double math_sqrt(double value)
math_sqrt(value) ==
    IF value < 0
    THEN [ret |-> Zero, writes |-> <<MATH_ERROR_INVALID_ARGUMENT>>]
    ELSE [ret |-> Ratio(sqrt(value), 1), writes |-> <<MATH_SUCCESS>>]

\* size_t math_string_length(const char* str); bytes is what str points at.
math_string_length(str, bytes) ==
    IF str = NULL
    THEN [ret |-> 0, writes |-> <<MATH_ERROR_NULL_POINTER>>]
    ELSE [ret |-> strlen(bytes), writes |-> <<MATH_SUCCESS>>]

\* char* math_string_reverse(const char* str); made is what the returned block
\* holds.  The block is live when the function returns.
math_string_reverse(str, bytes, failAt) ==
    IF str = NULL
    THEN [ret |-> NULL, made |-> <<>>, writes |-> <<MATH_ERROR_NULL_POINTER>>,
          heap |-> heap, chars |-> chars]
    ELSE LET len == strlen(bytes)
             reversed == MallocHigh(heap, failAt = 1) IN
         IF reversed = NULL
         THEN [ret |-> NULL, made |-> <<>>, writes |-> <<MATH_ERROR_OUT_OF_MEMORY>>,
               heap |-> heap, chars |-> chars]
         ELSE LET made == [i \in 1..len |-> bytes[len - i + 1]] \o <<NUL>> IN
              [ret |-> reversed,
               made |-> made,
               writes |-> <<MATH_SUCCESS>>,
               heap |-> Allocated(heap, reversed, "char[]"),
               chars |-> [chars EXCEPT ![reversed] = made]]

\* The blocks math_string_reverse returned: nothing in the repository frees
\* them, so each is live from the call on.
Reversed ==
    {a \in Addrs : heap[a] = "char[]"} \ {sarr.elems[i] : i \in 1..sarr.count}

\* The difference of the first pair of bytes in which s1 and s2 differ, from
\* index i; 0 when there is none before the terminator.
RECURSIVE ByteDiff(_, _, _)
ByteDiff(s1, s2, i) ==
    IF s1[i] # s2[i] THEN s1[i] - s2[i]
    ELSE IF s1[i] = NUL THEN 0 ELSE ByteDiff(s1, s2, i + 1)
Sign(n) == IF n < 0 THEN 0 - 1 ELSE IF n > 0 THEN 1 ELSE 0

\* int strcmp(s1, s2): C fixes the sign of the result only; the values a libc
\* returns are the difference of the bytes, or -1, 0, 1.
strcmp(s1, s2) == {ByteDiff(s1, s2, 1), Sign(ByteDiff(s1, s2, 1))}

\* int math_string_compare(const char* str1, const char* str2); cmp is what
\* strcmp returned.
math_string_compare(str1, str2, cmp) ==
    IF str1 = NULL \/ str2 = NULL
    THEN [ret |-> 0, writes |-> <<MATH_ERROR_NULL_POINTER>>]
    ELSE [ret |-> cmp, writes |-> <<MATH_SUCCESS>>]

\* The caller's Point2D objects handed to math_distance_2d (test_math.c), and
\* its Point3D objects; a pointer to one is an index.
DistPoints == << [x |-> 0, y |-> 0], [x |-> 3, y |-> 4] >>
DistPoints3 == << [x |-> 0, y |-> 0, z |-> 0], [x |-> 1, y |-> 2, z |-> 2] >>

\* double math_distance_2d(const Point2D* p1, const Point2D* p2)
math_distance_2d(p1, p2) ==
    IF p1 = NULL \/ p2 = NULL
    THEN [ret |-> Zero, writes |-> <<MATH_ERROR_NULL_POINTER>>]
    ELSE LET dx == DistPoints[p2].x - DistPoints[p1].x
             dy == DistPoints[p2].y - DistPoints[p1].y IN
         [ret |-> Ratio(sqrt(dx * dx + dy * dy), 1), writes |-> <<MATH_SUCCESS>>]

\* double math_distance_3d(const Point3D* p1, const Point3D* p2)
math_distance_3d(p1, p2) ==
    IF p1 = NULL \/ p2 = NULL
    THEN [ret |-> Zero, writes |-> <<MATH_ERROR_NULL_POINTER>>]
    ELSE LET dx == DistPoints3[p2].x - DistPoints3[p1].x
             dy == DistPoints3[p2].y - DistPoints3[p1].y
             dz == DistPoints3[p2].z - DistPoints3[p1].z IN
         [ret |-> Ratio(sqrt(dx * dx + dy * dy + dz * dz), 1),
          writes |-> <<MATH_SUCCESS>>]

\* The caller's Circle objects; a const Circle* is NULL or an index.
Circles == << [center |-> [x |-> 0, y |-> 0], radius |-> 5],
              [center |-> [x |-> 0, y |-> 0], radius |-> 0],
              [center |-> [x |-> 0, y |-> 0], radius |-> 0 - 1] >>

\* double math_circle_area(const Circle* circle); the result is ret * MATH_PI^pi.
math_circle_area(circle) ==
    IF circle = NULL
    THEN [ret |-> Zero, pi |-> 0, writes |-> <<MATH_ERROR_NULL_POINTER>>]
    ELSE IF Circles[circle].radius < 0
    THEN [ret |-> Zero, pi |-> 0, writes |-> <<MATH_ERROR_INVALID_ARGUMENT>>]
    ELSE [ret |-> Ratio(Circles[circle].radius * Circles[circle].radius, 1), pi |-> 1,
          writes |-> <<MATH_SUCCESS>>]

\* double math_circle_circumference(const Circle* circle); the result is
\* ret * MATH_PI^pi.
math_circle_circumference(circle) ==
    IF circle = NULL
    THEN [ret |-> Zero, pi |-> 0, writes |-> <<MATH_ERROR_NULL_POINTER>>]
    ELSE IF Circles[circle].radius < 0
    THEN [ret |-> Zero, pi |-> 0, writes |-> <<MATH_ERROR_INVALID_ARGUMENT>>]
    ELSE [ret |-> Ratio(2 * Circles[circle].radius, 1), pi |-> 1,
          writes |-> <<MATH_SUCCESS>>]

\* The for loop of math_sum_array, from index i (0-based) with the sum so far.
RECURSIVE SumLoop(_, _, _, _)
SumLoop(ints, length, i, sum) ==
    IF i < length THEN SumLoop(ints, length, i + 1, sum + ints[i + 1]) ELSE sum

\* int math_sum_array(const int* array, size_t length); ints is what array points at.
math_sum_array(array, length, ints) ==
    IF array = NULL
    THEN [ret |-> 0, writes |-> <<MATH_ERROR_NULL_POINTER>>]
    ELSE [ret |-> SumLoop(ints, length, 0, 0), writes |-> <<MATH_SUCCESS>>]

\* float math_average_array(const int* array, size_t length)
math_average_array(array, length, ints) ==
    IF array = NULL \/ length = 0
    THEN [ret |-> Zero, writes |-> <<MATH_ERROR_INVALID_ARGUMENT>>]
    ELSE LET s == math_sum_array(array, length, ints) IN
         IF Register(math_last_error, s.writes) # MATH_SUCCESS
         THEN [ret |-> Zero, writes |-> s.writes]
         ELSE [ret |-> Ratio(s.ret, length), writes |-> s.writes]

\* The for loop of math_find_max, from index i with the maximum so far.
RECURSIVE MaxLoop(_, _, _, _)
MaxLoop(ints, length, i, max) ==
    IF i < length
    THEN MaxLoop(ints, length, i + 1, IF ints[i + 1] > max THEN ints[i + 1] ELSE max)
    ELSE max

\* math_find_max that reports an absent array as a null pointer.
math_find_max_nullfirst(array, length, ints) ==
    IF array = NULL
    THEN [ret |-> 0, writes |-> <<MATH_ERROR_NULL_POINTER>>]
    ELSE IF length = 0
    THEN [ret |-> 0, writes |-> <<MATH_ERROR_INVALID_ARGUMENT>>]
    ELSE [ret |-> MaxLoop(ints, length, 1, ints[1]), writes |-> <<MATH_SUCCESS>>]

\* int math_find_max(const int* array, size_t length)
math_find_max(array, length, ints) ==
    IF array = NULL \/ length = 0
    THEN [ret |-> 0, writes |-> <<MATH_ERROR_INVALID_ARGUMENT>>]
    ELSE [ret |-> MaxLoop(ints, length, 1, ints[1]), writes |-> <<MATH_SUCCESS>>]

\* The for loop of math_find_min, from index i with the minimum so far.
RECURSIVE MinLoop(_, _, _, _)
MinLoop(ints, length, i, min) ==
    IF i < length
    THEN MinLoop(ints, length, i + 1, IF ints[i + 1] < min THEN ints[i + 1] ELSE min)
    ELSE min

\* int math_find_min(const int* array, size_t length)
math_find_min(array, length, ints) ==
    IF array = NULL \/ length = 0
    THEN [ret |-> 0, writes |-> <<MATH_ERROR_INVALID_ARGUMENT>>]
    ELSE [ret |-> MinLoop(ints, length, 1, ints[1]), writes |-> <<MATH_SUCCESS>>]

\* ------------------------------------------------ math_library.c: callbacks
\* The caller's comparators (a MathCompareCallback is NULL or one of these):
\* 1 orders ascending, 2 orders descending.
ComparePtrs == {NULL, 1, 2}
Compare(compare, a, b) == IF compare = 1 THEN a - b ELSE b - a

\* The inner for loop with a test of >= 0 in place of > 0.
RECURSIVE SortInner_swapties(_, _, _, _, _)
SortInner_swapties(st, length, i, j, compare) ==
    IF j < length - i - 1
    THEN LET a == st.a
             swap == Compare(compare, a[j + 1], a[j + 2]) >= 0
             swapped == [a EXCEPT ![j + 1] = a[j + 2], ![j + 2] = a[j + 1]] IN
         SortInner_swapties([a |-> IF swap THEN swapped ELSE a,
                             n |-> st.n + 1,
                             s |-> IF swap THEN st.s + 1 ELSE st.s],
                            length, i, j + 1, compare)
    ELSE st

\* The inner for loop of the bubble sort, from j, on st = [a: the buffer,
\* n: the comparator calls so far, s: the swaps so far].
RECURSIVE SortInner(_, _, _, _, _)
SortInner(st, length, i, j, compare) ==
    IF j < length - i - 1
    THEN LET a == st.a
             swap == Compare(compare, a[j + 1], a[j + 2]) > 0
             swapped == [a EXCEPT ![j + 1] = a[j + 2], ![j + 2] = a[j + 1]] IN
         SortInner([a |-> IF swap THEN swapped ELSE a,
                    n |-> st.n + 1,
                    s |-> IF swap THEN st.s + 1 ELSE st.s],
                   length, i, j + 1, compare)
    ELSE st

\* The outer for loop of the bubble sort, from i.
RECURSIVE SortOuter(_, _, _, _)
SortOuter(st, length, i, compare) ==
    IF i < length - 1
    THEN SortOuter(SortInner(st, length, i, 0, compare), length, i + 1, compare)
    ELSE st

\* math_sort_array_with_callback whose outer loop makes one pass only.
math_sort_array_onepass(array, length, compare, ints) ==
    IF array = NULL \/ compare = NULL \/ length = 0
    THEN [out |-> ints, compares |-> 0, swaps |-> 0, writes |-> <<MATH_ERROR_NULL_POINTER>>]
    ELSE LET st == SortInner([a |-> ints, n |-> 0, s |-> 0], length, 0, 0, compare) IN
         [out |-> st.a, compares |-> st.n, swaps |-> st.s, writes |-> <<MATH_SUCCESS>>]

\* void math_sort_array_with_callback(int* array, size_t length,
\*                                    MathCompareCallback compare)
math_sort_array_with_callback(array, length, compare, ints) ==
    IF array = NULL \/ compare = NULL \/ length = 0
    THEN [out |-> ints, compares |-> 0, swaps |-> 0, writes |-> <<MATH_ERROR_NULL_POINTER>>]
    ELSE LET st == SortOuter([a |-> ints, n |-> 0, s |-> 0], length, 0, compare) IN
         [out |-> st.a, compares |-> st.n, swaps |-> st.s, writes |-> <<MATH_SUCCESS>>]

\* The caller's progress hooks (a MathProgressCallback is NULL or this one).
ProgressPtrs == {NULL, 1}

\* The loop of math_process_with_progress with the hook called before the
\* element is doubled.
RECURSIVE ProcessLoop_early(_, _, _)
ProcessLoop_early(st, length, i) ==
    IF i < length
    THEN LET a == [st.a EXCEPT ![i + 1] = st.a[i + 1] * 2] IN
         ProcessLoop_early([a |-> a,
                            log |-> Append(st.log, [prog |-> Ratio(i + 1, length),
                                                    seen |-> st.a])],
                           length, i + 1)
    ELSE st

\* The for loop of math_process_with_progress, from i, on st = [a: the buffer,
\* log: what each call of the hook was given and the buffer it could see].
RECURSIVE ProcessLoop(_, _, _)
ProcessLoop(st, length, i) ==
    IF i < length
    THEN LET a == [st.a EXCEPT ![i + 1] = st.a[i + 1] * 2] IN
         ProcessLoop([a |-> a,
                      log |-> Append(st.log, [prog |-> Ratio(i + 1, length), seen |-> a])],
                     length, i + 1)
    ELSE st

\* void math_process_with_progress(int* array, size_t length,
\*                                 MathProgressCallback progress)
math_process_with_progress(array, length, progress, ints) ==
    IF array = NULL \/ progress = NULL \/ length = 0
    THEN [out |-> ints, log |-> <<>>, writes |-> <<MATH_ERROR_NULL_POINTER>>]
    ELSE LET st == ProcessLoop([a |-> ints, log |-> <<>>], length, 0) IN
         [out |-> st.a, log |-> st.log, writes |-> <<MATH_SUCCESS>>]

\* ------------------------------------- string_utils.c: string manipulation
\* <ctype.h> in the "C" locale.
isspace(c) == c = 32 \/ c \in 9..13
toupper(c) == IF c \in 97..122 THEN c - 32 ELSE c
tolower(c) == IF c \in 65..90 THEN c + 32 ELSE c

\* A call that returns NULL with the register set to kind, allocating nothing.
Refused(kind) == [ret |-> NULL, made |-> <<>>, writes |-> <<kind>>, heap |-> heap]
\* A call that returns the block result, filled with the bytes made.
Returned(result, made) ==
    [ret |-> result, made |-> made, writes |-> <<STRING_SUCCESS>>,
     heap |-> Allocated(heap, result, "char[]")]

\* char* string_concatenate(const char* str1, const char* str2); b1 and b2 are
\* what str1 and str2 point at.
string_concatenate(str1, b1, str2, b2, failAt) ==
    IF str1 = NULL \/ str2 = NULL THEN Refused(STRING_ERROR_NULL_POINTER)
    ELSE LET result == Malloc(heap, failAt = 1) IN
         IF result = NULL THEN Refused(STRING_ERROR_OUT_OF_MEMORY)
         ELSE Returned(result, CStr(b1) \o strcpy(b2))

\* char* string_substring(const char* str, size_t start, size_t length)
string_substring(str, bytes, start, length, failAt) ==
    IF str = NULL THEN Refused(STRING_ERROR_NULL_POINTER)
    ELSE LET str_len == strlen(bytes) IN
         IF start >= str_len THEN Refused(STRING_ERROR_INDEX_OUT_OF_BOUNDS)
         ELSE LET n == IF start + length > str_len THEN str_len - start ELSE length
                  result == Malloc(heap, failAt = 1) IN
              IF result = NULL THEN Refused(STRING_ERROR_OUT_OF_MEMORY)
              ELSE Returned(result, SubSeq(bytes, start + 1, start + n) \o <<NUL>>)

\* char* string_to_upper(const char* str)
string_to_upper(str, bytes, failAt) ==
    IF str = NULL THEN Refused(STRING_ERROR_NULL_POINTER)
    ELSE LET len == strlen(bytes)
             result == Malloc(heap, failAt = 1) IN
         IF result = NULL THEN Refused(STRING_ERROR_OUT_OF_MEMORY)
         ELSE Returned(result, [i \in 1..len |-> toupper(bytes[i])] \o <<NUL>>)

\* char* string_to_lower(const char* str)
string_to_lower(str, bytes, failAt) ==
    IF str = NULL THEN Refused(STRING_ERROR_NULL_POINTER)
    ELSE LET len == strlen(bytes)
             result == Malloc(heap, failAt = 1) IN
         IF result = NULL THEN Refused(STRING_ERROR_OUT_OF_MEMORY)
         ELSE Returned(result, [i \in 1..len |-> tolower(bytes[i])] \o <<NUL>>)

\* string_trim: the first while loop; start as an index (1 is str itself).
RECURSIVE TrimStart(_, _)
TrimStart(bytes, start) ==
    IF bytes[start] # NUL /\ isspace(bytes[start]) THEN TrimStart(bytes, start + 1)
    ELSE start
\* string_trim: the second while loop; end as an index (0 is one before str).
RECURSIVE TrimEnd(_, _, _)
TrimEnd(bytes, start, end) ==
    IF end > start /\ isspace(bytes[end]) THEN TrimEnd(bytes, start, end - 1)
    ELSE end

\* char* string_trim(const char* str).  For the empty string end is str - 1, a
\* pointer the loop compares but never reads through.
string_trim(str, bytes, failAt) ==
    IF str = NULL THEN Refused(STRING_ERROR_NULL_POINTER)
    ELSE LET start == TrimStart(bytes, 1)
             end == TrimEnd(bytes, start, strlen(bytes))
             len == end - start + 1
             result == Malloc(heap, failAt = 1) IN
         IF result = NULL THEN Refused(STRING_ERROR_OUT_OF_MEMORY)
         ELSE Returned(result, SubSeq(bytes, start, start + len - 1) \o <<NUL>>)

\* ----------------------------------------- string_utils.c: string analysis
\* The for loop of string_count_chars, from index p with the count so far.
RECURSIVE CountCharsLoop(_, _, _, _)
CountCharsLoop(bytes, ch, p, count) ==
    IF bytes[p] = NUL THEN count
    ELSE CountCharsLoop(bytes, ch, p + 1, IF bytes[p] = ch THEN count + 1 ELSE count)

\* size_t string_count_chars(const char* str, char ch)
string_count_chars(str, bytes, ch) ==
    IF str = NULL
    THEN [ret |-> 0, writes |-> <<STRING_ERROR_NULL_POINTER>>]
    ELSE [ret |-> CountCharsLoop(bytes, ch, 1, 0), writes |-> <<STRING_SUCCESS>>]

\* The for loop of string_count_words, from index p.
RECURSIVE CountWordsLoop(_, _, _, _)
CountWordsLoop(bytes, p, count, in_word) ==
    IF bytes[p] = NUL THEN count
    ELSE IF ~isspace(bytes[p])
    THEN CountWordsLoop(bytes, p + 1, IF in_word = 0 THEN count + 1 ELSE count, 1)
    ELSE CountWordsLoop(bytes, p + 1, count, 0)

\* size_t string_count_words(const char* str)
string_count_words(str, bytes) ==
    IF str = NULL
    THEN [ret |-> 0, writes |-> <<STRING_ERROR_NULL_POINTER>>]
    ELSE [ret |-> CountWordsLoop(bytes, 1, 0, 0), writes |-> <<STRING_SUCCESS>>]

\* int strncmp(s1, s2, n) from index i: 0 when the first n bytes agree (or both
\* strings end before that), the difference of the first differing pair otherwise.
RECURSIVE strncmp(_, _, _, _)
strncmp(s1, s2, n, i) ==
    IF i > n THEN 0
    ELSE IF s1[i] # s2[i] THEN s1[i] - s2[i]
    ELSE IF s1[i] = NUL THEN 0 ELSE strncmp(s1, s2, n, i + 1)

\* int string_starts_with(const char* str, const char* prefix)
string_starts_with(str, bytes, prefix, pbytes) ==
    IF str = NULL \/ prefix = NULL
    THEN [ret |-> 0, writes |-> <<STRING_ERROR_NULL_POINTER>>]
    ELSE [ret |-> IF strncmp(bytes, pbytes, strlen(pbytes), 1) = 0 THEN 1 ELSE 0,
          writes |-> <<STRING_SUCCESS>>]

\* int string_ends_with(const char* str, const char* suffix)
string_ends_with(str, bytes, suffix, sbytes) ==
    IF str = NULL \/ suffix = NULL
    THEN [ret |-> 0, writes |-> <<STRING_ERROR_NULL_POINTER>>]
    ELSE LET str_len == strlen(bytes)
             suffix_len == strlen(sbytes) IN
         IF suffix_len > str_len
         THEN [ret |-> 0, writes |-> <<STRING_SUCCESS>>]
         ELSE [ret |-> IF ByteDiff(SubSeq(bytes, str_len - suffix_len + 1, Len(bytes)),
                                   sbytes, 1) = 0 THEN 1 ELSE 0,
               writes |-> <<STRING_SUCCESS>>]

\* char* strstr(haystack, needle): the index of the first occurrence of needle
\* in haystack, 0 (NULL) when there is none; the empty needle is found at once.
strstr(haystack, needle) ==
    LET n == strlen(needle)
        at == {k \in 1..(strlen(haystack) + 1) :
                 /\ k + n - 1 <= strlen(haystack)
                 /\ SubSeq(haystack, k, k + n - 1) = CStr(needle)} IN
    IF at = {} THEN NULL ELSE Min(at)

\* int string_contains(const char* str, const char* substring)
string_contains(str, bytes, substring, sbytes) ==
    IF str = NULL \/ substring = NULL
    THEN [ret |-> 0, writes |-> <<STRING_ERROR_NULL_POINTER>>]
    ELSE [ret |-> IF strstr(bytes, sbytes) # NULL THEN 1 ELSE 0,
          writes |-> <<STRING_SUCCESS>>]

\* ----------------------------------------------- string_utils.c: formatting
\* The decimal digits of n >= 0, as bytes.
RECURSIVE DecDigits(_)
DecDigits(n) == IF n < 10 THEN <<48 + n>> ELSE DecDigits(n \div 10) \o <<48 + (n % 10)>>
\* The last p decimal digits of n >= 0, with leading zeros.
RECURSIVE FracDigits(_, _)
FracDigits(n, p) == IF p = 0 THEN <<>> ELSE FracDigits(n \div 10, p - 1) \o <<48 + (n % 10)>>

\* What sprintf(result, "%d", value) writes.
FormatD(value) ==
    (IF value < 0 THEN <<45>> \o DecDigits(0 - value) ELSE DecDigits(value)) \o <<NUL>>

\* char* string_format_int(int value)
string_format_int(value, failAt) ==
    LET result == Malloc(heap, failAt = 1) IN
    IF result = NULL THEN Refused(STRING_ERROR_OUT_OF_MEMORY)
    ELSE Returned(result, FormatD(value))

\* What sprintf(result, "%.<precision>f", value) writes for the float value[1] /
\* value[2]: the value times 10^precision, rounded to the nearest integer (a tie
\* goes to the even one), with the point before its last precision digits; the
\* sign is that of the value even when it rounds to zero.
FormatF(value, precision) ==
    LET n == IF value[1] < 0 THEN 0 - value[1] ELSE value[1]
        scale == pow(10, precision)
        q == (n * scale) \div value[2]
        r == (n * scale) % value[2]
        rounded == IF 2 * r > value[2] \/ (2 * r = value[2] /\ q % 2 = 1)
                   THEN q + 1 ELSE q IN
    (IF value[1] < 0 THEN <<45>> ELSE <<>>)
    \o DecDigits(rounded \div scale)
    \o (IF precision > 0 THEN <<46>> \o FracDigits(rounded % scale, precision) ELSE <<>>)
    \o <<NUL>>

\* char* string_format_float(float value, int precision)
string_format_float(value, precision, failAt) ==
    IF precision < 0 \/ precision > 10 THEN Refused(STRING_ERROR_INVALID_ARGUMENT)
    ELSE LET result == Malloc(heap, failAt = 1) IN
         IF result = NULL THEN Refused(STRING_ERROR_OUT_OF_MEMORY)
         ELSE Returned(result, FormatF(value, precision))

\* float strtof(str, &endptr) on the bytes b: white space, an optional sign,
\* digits with an optional point; with no digit nothing is consumed and endptr
\* is str.  (Exponents, hexadecimal, "inf" and "nan" need bytes that are not
\* among those the caller passes.)
strtof(b) ==
    LET i == SkipSpaces(b, 1)
        j == IF b[i] \in {43, 45} THEN i + 1 ELSE i
        whole == Digits(b, j, 0)
        frac == IF b[whole.end] = 46 THEN Digits(b, whole.end + 1, whole.val)
                ELSE whole
        places == IF b[whole.end] = 46 THEN frac.end - whole.end - 1 ELSE 0
        digits == (whole.end - j) + places IN
    IF digits = 0 THEN [ret |-> Zero, endptr |-> 1]
    ELSE [ret |-> Ratio(IF b[i] = 45 THEN 0 - frac.val ELSE frac.val, pow(10, places)),
          endptr |-> frac.end]

\* float string_parse_float(const char* str); bytes is what str points at.
string_parse_float(str, bytes) ==
    IF str = NULL
    THEN [ret |-> Zero, writes |-> <<STRING_ERROR_NULL_POINTER>>]
    ELSE LET p == strtof(bytes) IN
         IF bytes[p.endptr] # NUL
         THEN [ret |-> Zero, writes |-> <<STRING_ERROR_PARSE_ERROR>>]
         ELSE [ret |-> p.ret, writes |-> <<STRING_SUCCESS>>]

\* ------------------------------------------------------------------- calls
\* The capacities a caller asks a create for, and the indexes it asks a get for.
Caps == IF Small THEN 0..1 ELSE 0..MaxCap

\* The record of a call: the function, its arguments, what the library's register
\* held when the call was made (before), and what the caller can see
\* when it returns: the int buffer handed in (ints) and as it is afterwards
\* (out), what the hooks were called with (compares, log), the swaps the sort
\* made (swaps), the returned int,
\* size_t or pointer (ret), the returned
\* float (quot), the returned Point2D* (elem) or message (text), what was passed
\* to free() (frees), the bytes of a returned duplicate or of what the caller
\* wrote (bytes) and the values assigned to last_error (writes).  A field the function does not have
\* keeps the value given here.
Call(op, args, before) ==
    [op |-> op, args |-> args, before |-> before, ret |-> 0, quot |-> Zero, pi |-> 0,
     elem |-> NullElem,
     text |-> "", ints |-> <<>>, out |-> <<>>, compares |-> 0, swaps |-> 0, log |-> <<>>,
     frees |-> <<>>, bytes |-> <<>>, bytes2 |-> <<>>, made |-> <<>>, writes |-> <<>>]

\* The handles the caller can pass for an object: NULL, or the live object's address.
Handles(arr) == {NULL} \cup (IF Live(arr) THEN {arr.self} ELSE {})

\* What a caller passes for an int buffer and its length: a buffer (which may be
\* empty) with its size, or NULL with a length of zero or not.
IntArgs ==
    IF Small
    THEN {[array |-> IntBufAddr, ints |-> <<2, 1>>, length |-> 2],
          [array |-> NULL, ints |-> <<>>, length |-> 0]}
    ELSE {[array |-> IntBufAddr, ints |-> b, length |-> Len(b)] : b \in IntBufs}
         \cup [array : {NULL}, ints : {<<>>}, length : {0, MaxLen}]

\* Every value a caller can pass as an error code: the enumerators and two others.
ErrorCodes == (STRING_ERROR_PARSE_ERROR - 1)..(STRING_SUCCESS + 1)

\* What a caller passes to the sort for the buffer and its length.
SortArgs ==
    IF Small
    THEN {[array |-> IntBufAddr, ints |-> <<2, 1>>, length |-> 2],
          [array |-> NULL, ints |-> <<>>, length |-> 0]}
    ELSE {[array |-> IntBufAddr, ints |-> b, length |-> Len(b)] :
             b \in UNION {[1..n -> IntVals] : n \in 0..MaxSort}}
         \cup [array : {NULL}, ints : {<<>>}, length : {0, MaxSort}]

\* The string literals a caller passes to the functions that take a const
\* char*: "", "b", "Ab" and " b ", each with its terminator; a pointer to one is
\* NULL, LiteralAddr (a first argument) or Literal2Addr (a second one).
StrLits ==
    IF Small THEN { <<65, 98, NUL>> }
    ELSE { <<NUL>>, <<98, NUL>>, <<65, 98, NUL>>, <<32, 98, 32, NUL>> }
LitArgs == [str : {LiteralAddr}, bytes : StrLits] \cup [str : {NULL}, bytes : {<<>>}]
Lit2Args == [str : {Literal2Addr}, bytes : StrLits] \cup [str : {NULL}, bytes : {<<>>}]

\* The floats handed to string_format_float (0.5, 1.5 and -0.25) and the
\* literals with a point handed to string_parse_float ("1.5", "1." and ".").
FloatVals == IF Small THEN { Ratio(3, 2) } ELSE { Ratio(1, 2), Ratio(3, 2), Ratio(0 - 1, 4) }
FloatLits == { <<49, 46, 53, NUL>>, <<49, 46, NUL>>, <<46, NUL>> }
\* What a caller passes to string_parse_int, and to string_parse_float.
ParseArgs ==
    [str : {LiteralAddr}, bytes : IF Small THEN { <<49, NUL>>, <<97, NUL>> } ELSE ParseBufs]
    \cup [str : {NULL}, bytes : {<<>>}]
ParseFloatArgs ==
    ParseArgs \cup [str : {LiteralAddr},
                    bytes : IF Small THEN { <<49, 46, 53, NUL>> } ELSE FloatLits]

\* The caller is in main, between two calls, in a program linked with the
\* library.
InMain(callers) == test \in callers /\ call.op = "main"

\* The programs that call into math_library.c, and those that call into
\* string_utils.c; "both" is a program linked with the two libraries.
MathCallers == {"test_math", "both"}
StringCallers == {"test_string", "both"}

mathOnly == <<heap, parr, padded, ub>>
mathFrame == <<chars, string_last_error, sarr, sadded, test>>
stringFrame == <<math_last_error, parr, padded, test>>

Init ==
    /\ heap = [a \in Addrs |-> "free"]
    /\ chars = [a \in Addrs \cup {CallerAddr} |-> IF a = CallerAddr THEN <<97, 98, NUL>> ELSE <<>>]
    /\ math_last_error = MATH_SUCCESS
    /\ string_last_error = STRING_SUCCESS
    /\ parr = NoArray
    /\ sarr = NoArray
    /\ padded = <<>>
    /\ sadded = <<>>
    /\ ub = FALSE
    /\ test \in {"test_math", "test_string"}
    /\ call = Call("main", <<>>, MATH_SUCCESS)

\* ---- test_math.c: calls into math_library.c
CreatePointArray ==
    /\ InMain(MathCallers) /\ ~Live(parr) /\ Room(2)
    /\ \E initial_capacity \in Caps, failAt \in 0..2 :
         LET r == math_create_point_array(initial_capacity, failAt) IN
         /\ heap' = r.heap
         /\ parr' = r.obj
         /\ padded' = <<>>
         /\ math_last_error' = Register(math_last_error, r.writes)
         /\ call' = [Call("math_create_point_array", <<initial_capacity, failAt>>, math_last_error) EXCEPT
                        !.ret = r.ret, !.writes = r.writes]
    /\ UNCHANGED <<ub>>
    /\ UNCHANGED mathFrame

DestroyPointArray ==
    /\ InMain(MathCallers)
    /\ \E array \in Handles(parr) :
         LET r == math_destroy_point_array(array) IN
         /\ heap' = r.heap
         /\ parr' = r.obj
         /\ padded' = IF array = NULL THEN padded ELSE <<>>
         /\ ub' = (ub \/ AnyBadFree(heap, r.frees))
         /\ math_last_error' = Register(math_last_error, r.writes)
         /\ call' = [Call("math_destroy_point_array", <<array>>, math_last_error) EXCEPT
                        !.frees = r.frees, !.writes = r.writes]
    /\ UNCHANGED mathFrame

AddPoint ==
    /\ InMain(MathCallers)
    /\ \E array \in Handles(parr), point \in PointPtrs :
         LET r == math_add_point(array, point) IN
         /\ parr' = r.obj
         /\ padded' = IF r.ret = 0 THEN Append(padded, CallerPoints[point]) ELSE padded
         /\ math_last_error' = Register(math_last_error, r.writes)
         /\ call' = [Call("math_add_point", <<array, point>>, math_last_error) EXCEPT
                        !.ret = r.ret, !.writes = r.writes]
    /\ UNCHANGED <<heap, ub>>
    /\ UNCHANGED mathFrame

GetPoint ==
    /\ InMain(MathCallers)
    /\ \E array \in Handles(parr), index \in Caps :
         LET r == math_get_point(array, index) IN
         /\ math_last_error' = Register(math_last_error, r.writes)
         /\ call' = [Call("math_get_point", <<array, index>>, math_last_error) EXCEPT
                        !.elem = r.ret, !.writes = r.writes]
    /\ UNCHANGED mathOnly
    /\ UNCHANGED mathFrame

GetPointCount ==
    /\ InMain(MathCallers)
    /\ \E array \in Handles(parr) :
         LET r == math_get_point_count(array) IN
         /\ math_last_error' = Register(math_last_error, r.writes)
         /\ call' = [Call("math_get_point_count", <<array>>, math_last_error) EXCEPT
                        !.ret = r.ret, !.writes = r.writes]
    /\ UNCHANGED mathOnly
    /\ UNCHANGED mathFrame

MathGetLastError ==
    /\ InMain(MathCallers)
    /\ LET r == math_get_last_error IN
         /\ math_last_error' = Register(math_last_error, r.writes)
         /\ call' = [Call("math_get_last_error", <<>>, math_last_error) EXCEPT
                        !.ret = r.ret, !.writes = r.writes]
    /\ UNCHANGED mathOnly
    /\ UNCHANGED mathFrame

MathGetErrorMessage ==
    /\ InMain(MathCallers)
    /\ \E error \in ErrorCodes :
         LET r == math_get_error_message(error) IN
         /\ math_last_error' = Register(math_last_error, r.writes)
         /\ call' = [Call("math_get_error_message", <<error>>, math_last_error) EXCEPT
                        !.text = r.ret, !.writes = r.writes]
    /\ UNCHANGED mathOnly
    /\ UNCHANGED mathFrame

Divide ==
    /\ InMain(MathCallers)
    /\ \E a \in {0} \cup IntVals, b \in {0} \cup IntVals :
         LET r == math_divide(a, b) IN
         /\ math_last_error' = Register(math_last_error, r.writes)
         /\ call' = [Call("math_divide", <<a, b>>, math_last_error) EXCEPT
                        !.quot = r.ret, !.writes = r.writes]
    /\ UNCHANGED mathOnly
    /\ UNCHANGED mathFrame

SumArray ==
    /\ InMain(MathCallers)
    /\ \E x \in IntArgs :
         LET r == math_sum_array(x.array, x.length, x.ints) IN
         /\ math_last_error' = Register(math_last_error, r.writes)
         /\ call' = [Call("math_sum_array", <<x.array, x.length>>, math_last_error) EXCEPT
                        !.ints = x.ints, !.ret = r.ret, !.writes = r.writes]
    /\ UNCHANGED mathOnly
    /\ UNCHANGED mathFrame

AverageArray ==
    /\ InMain(MathCallers)
    /\ \E x \in IntArgs :
         LET r == math_average_array(x.array, x.length, x.ints) IN
         /\ math_last_error' = Register(math_last_error, r.writes)
         /\ call' = [Call("math_average_array", <<x.array, x.length>>, math_last_error) EXCEPT
                        !.ints = x.ints, !.quot = r.ret, !.writes = r.writes]
    /\ UNCHANGED mathOnly
    /\ UNCHANGED mathFrame

FindMax ==
    /\ InMain(MathCallers)
    /\ \E x \in IntArgs :
         LET r == math_find_max(x.array, x.length, x.ints) IN
         /\ math_last_error' = Register(math_last_error, r.writes)
         /\ call' = [Call("math_find_max", <<x.array, x.length>>, math_last_error) EXCEPT
                        !.ints = x.ints, !.ret = r.ret, !.writes = r.writes]
    /\ UNCHANGED mathOnly
    /\ UNCHANGED mathFrame

FindMin ==
    /\ InMain(MathCallers)
    /\ \E x \in IntArgs :
         LET r == math_find_min(x.array, x.length, x.ints) IN
         /\ math_last_error' = Register(math_last_error, r.writes)
         /\ call' = [Call("math_find_min", <<x.array, x.length>>, math_last_error) EXCEPT
                        !.ints = x.ints, !.ret = r.ret, !.writes = r.writes]
    /\ UNCHANGED mathOnly
    /\ UNCHANGED mathFrame

SortArrayWithCallback ==
    /\ InMain(MathCallers)
    /\ \E x \in SortArgs, compare \in ComparePtrs :
         LET r == math_sort_array_with_callback(x.array, x.length, compare, x.ints) IN
         /\ math_last_error' = Register(math_last_error, r.writes)
         /\ call' = [Call("math_sort_array_with_callback", <<x.array, x.length, compare>>, math_last_error) EXCEPT
                        !.ints = x.ints, !.out = r.out, !.compares = r.compares,
                        !.swaps = r.swaps, !.writes = r.writes]
    /\ UNCHANGED mathOnly
    /\ UNCHANGED mathFrame

ProcessWithProgress ==
    /\ InMain(MathCallers)
    /\ \E x \in IntArgs, progress \in ProgressPtrs :
         LET r == math_process_with_progress(x.array, x.length, progress, x.ints) IN
         /\ math_last_error' = Register(math_last_error, r.writes)
         /\ call' = [Call("math_process_with_progress", <<x.array, x.length, progress>>, math_last_error) EXCEPT
                        !.ints = x.ints, !.out = r.out, !.log = r.log, !.writes = r.writes]
    /\ UNCHANGED mathOnly
    /\ UNCHANGED mathFrame

Add ==
    /\ InMain(MathCallers)
    /\ \E a \in {0} \cup IntVals, b \in {0} \cup IntVals :
         LET r == math_add(a, b) IN
         /\ math_last_error' = Register(math_last_error, r.writes)
         /\ call' = [Call("math_add", <<a, b>>, math_last_error) EXCEPT
                        !.ret = r.ret, !.writes = r.writes]
    /\ UNCHANGED mathOnly
    /\ UNCHANGED mathFrame

Subtract ==
    /\ InMain(MathCallers)
    /\ \E a \in {0} \cup IntVals, b \in {0} \cup IntVals :
         LET r == math_subtract(a, b) IN
         /\ math_last_error' = Register(math_last_error, r.writes)
         /\ call' = [Call("math_subtract", <<a, b>>, math_last_error) EXCEPT
                        !.ret = r.ret, !.writes = r.writes]
    /\ UNCHANGED mathOnly
    /\ UNCHANGED mathFrame

Multiply ==
    /\ InMain(MathCallers)
    /\ \E a \in {0} \cup IntVals, b \in {0} \cup IntVals :
         LET r == math_multiply(a, b) IN
         /\ math_last_error' = Register(math_last_error, r.writes)
         /\ call' = [Call("math_multiply", <<a, b>>, math_last_error) EXCEPT
                        !.ret = r.ret, !.writes = r.writes]
    /\ UNCHANGED mathOnly
    /\ UNCHANGED mathFrame

Power ==
    /\ InMain(MathCallers)
    /\ \E base \in {0, 2}, exponent \in {0, 2} :
         LET r == math_power(base, exponent) IN
         /\ math_last_error' = Register(math_last_error, r.writes)
         /\ call' = [Call("math_power", <<base, exponent>>, math_last_error) EXCEPT
                        !.quot = r.ret, !.writes = r.writes]
    /\ UNCHANGED mathOnly
    /\ UNCHANGED mathFrame

SquareRoot ==
    /\ InMain(MathCallers)
    /\ \E value \in {0 - 1, 0, 4} :
         LET r == math_sqrt(value) IN
         /\ math_last_error' = Register(math_last_error, r.writes)
         /\ call' = [Call("math_sqrt", <<value>>, math_last_error) EXCEPT
                        !.quot = r.ret, !.writes = r.writes]
    /\ UNCHANGED mathOnly
    /\ UNCHANGED mathFrame

StringLength ==
    /\ InMain(MathCallers)
    /\ \E x \in LitArgs :
         LET r == math_string_length(x.str, x.bytes) IN
         /\ math_last_error' = Register(math_last_error, r.writes)
         /\ call' = [Call("math_string_length", <<x.str>>, math_last_error) EXCEPT
                        !.bytes = x.bytes, !.ret = r.ret, !.writes = r.writes]
    /\ UNCHANGED mathOnly
    /\ UNCHANGED mathFrame

\* The reversed string is the caller's from here on: the block stays live and
\* keeps its bytes.  The caller asks for at most MaxHeld of them.
StringReverse ==
    /\ InMain(MathCallers) /\ Room(1)
    /\ Cardinality(Reversed) < MaxHeld
    /\ \E x \in LitArgs, failAt \in 0..1 :
         LET r == math_string_reverse(x.str, x.bytes, failAt) IN
         /\ heap' = r.heap
         /\ chars' = r.chars
         /\ math_last_error' = Register(math_last_error, r.writes)
         /\ call' = [Call("math_string_reverse", <<x.str, failAt>>, math_last_error) EXCEPT
                        !.bytes = x.bytes, !.ret = r.ret, !.made = r.made,
                        !.writes = r.writes]
    /\ UNCHANGED <<parr, padded, ub>>
    /\ UNCHANGED <<string_last_error, sarr, sadded, test>>

StringCompare ==
    /\ InMain(MathCallers)
    /\ \E x \in LitArgs, y \in Lit2Args :
       \E cmp \in IF x.str = NULL \/ y.str = NULL THEN {0} ELSE strcmp(x.bytes, y.bytes) :
         LET r == math_string_compare(x.str, y.str, cmp) IN
         /\ math_last_error' = Register(math_last_error, r.writes)
         /\ call' = [Call("math_string_compare", <<x.str, y.str>>, math_last_error) EXCEPT
                        !.bytes = x.bytes, !.bytes2 = y.bytes, !.ret = r.ret,
                        !.writes = r.writes]
    /\ UNCHANGED mathOnly
    /\ UNCHANGED mathFrame

Distance2d ==
    /\ InMain(MathCallers)
    /\ \E p1 \in {NULL} \cup DOMAIN DistPoints, p2 \in {NULL} \cup DOMAIN DistPoints :
         LET r == math_distance_2d(p1, p2) IN
         /\ math_last_error' = Register(math_last_error, r.writes)
         /\ call' = [Call("math_distance_2d", <<p1, p2>>, math_last_error) EXCEPT
                        !.quot = r.ret, !.writes = r.writes]
    /\ UNCHANGED mathOnly
    /\ UNCHANGED mathFrame

Distance3d ==
    /\ InMain(MathCallers)
    /\ \E p1 \in {NULL} \cup DOMAIN DistPoints3, p2 \in {NULL} \cup DOMAIN DistPoints3 :
         LET r == math_distance_3d(p1, p2) IN
         /\ math_last_error' = Register(math_last_error, r.writes)
         /\ call' = [Call("math_distance_3d", <<p1, p2>>, math_last_error) EXCEPT
                        !.quot = r.ret, !.writes = r.writes]
    /\ UNCHANGED mathOnly
    /\ UNCHANGED mathFrame

CircleArea ==
    /\ InMain(MathCallers)
    /\ \E circle \in {NULL} \cup DOMAIN Circles :
         LET r == math_circle_area(circle) IN
         /\ math_last_error' = Register(math_last_error, r.writes)
         /\ call' = [Call("math_circle_area", <<circle>>, math_last_error) EXCEPT
                        !.quot = r.ret, !.pi = r.pi, !.writes = r.writes]
    /\ UNCHANGED mathOnly
    /\ UNCHANGED mathFrame

CircleCircumference ==
    /\ InMain(MathCallers)
    /\ \E circle \in {NULL} \cup DOMAIN Circles :
         LET r == math_circle_circumference(circle) IN
         /\ math_last_error' = Register(math_last_error, r.writes)
         /\ call' = [Call("math_circle_circumference", <<circle>>, math_last_error) EXCEPT
                        !.quot = r.ret, !.pi = r.pi, !.writes = r.writes]
    /\ UNCHANGED mathOnly
    /\ UNCHANGED mathFrame

NextMath ==
    \/ Add \/ Subtract \/ Multiply \/ Divide \/ Power \/ SquareRoot
    \/ SumArray \/ AverageArray \/ FindMax \/ FindMin
    \/ StringLength \/ StringReverse \/ StringCompare
    \/ Distance2d \/ Distance3d \/ CircleArea \/ CircleCircumference
    \/ CreatePointArray \/ DestroyPointArray \/ AddPoint \/ GetPoint \/ GetPointCount
    \/ MathGetLastError \/ MathGetErrorMessage
    \/ SortArrayWithCallback \/ ProcessWithProgress

\* ---- test_string.c: calls into string_utils.c
\* The const char* values the caller can pass: NULL, and its own buffer while
\* that exists.
StrArgs == {NULL} \cup (IF chars[CallerAddr] # <<>> THEN {CallerAddr} ELSE {})

CreateStringArray ==
    /\ InMain(StringCallers) /\ ~Live(sarr) /\ Room(2)
    /\ \E initial_capacity \in Caps, failAt \in 0..2 :
         LET r == string_array_create(initial_capacity, failAt) IN
         /\ heap' = r.heap
         /\ sarr' = r.obj
         /\ sadded' = <<>>
         /\ string_last_error' = Register(string_last_error, r.writes)
         /\ call' = [Call("string_array_create", <<initial_capacity, failAt>>, string_last_error) EXCEPT
                        !.ret = r.ret, !.writes = r.writes]
    /\ UNCHANGED <<chars, ub>>
    /\ UNCHANGED stringFrame

DestroyStringArray ==
    /\ InMain(StringCallers)
    /\ \E array \in Handles(sarr) :
         LET r == string_array_destroy(array) IN
         /\ heap' = r.heap
         /\ chars' = r.chars
         /\ sarr' = r.obj
         /\ sadded' = IF array = NULL THEN sadded ELSE <<>>
         /\ ub' = (ub \/ AnyBadFree(heap, r.frees))
         /\ string_last_error' = Register(string_last_error, r.writes)
         /\ call' = [Call("string_array_destroy", <<array>>, string_last_error) EXCEPT
                        !.frees = r.frees, !.writes = r.writes]
    /\ UNCHANGED stringFrame

AddString ==
    /\ InMain(StringCallers) /\ Room(1)
    /\ \E array \in Handles(sarr), str \in StrArgs, failAt \in 0..1 :
         LET r == string_array_add(array, str, failAt) IN
         /\ heap' = r.heap
         /\ chars' = r.chars
         /\ sarr' = r.obj
         /\ sadded' = IF r.ret = 0 THEN Append(sadded, CStr(chars[str])) ELSE sadded
         /\ string_last_error' = Register(string_last_error, r.writes)
         /\ call' = [Call("string_array_add", <<array, str, failAt>>, string_last_error) EXCEPT
                        !.ret = r.ret, !.writes = r.writes]
    /\ UNCHANGED <<ub>>
    /\ UNCHANGED stringFrame

GetString ==
    /\ InMain(StringCallers)
    /\ \E array \in Handles(sarr), index \in Caps :
         LET r == string_array_get(array, index) IN
         /\ string_last_error' = Register(string_last_error, r.writes)
         /\ call' = [Call("string_array_get", <<array, index>>, string_last_error) EXCEPT
                        !.ret = r.ret, !.writes = r.writes]
    /\ UNCHANGED <<heap, chars, sarr, sadded, ub>>
    /\ UNCHANGED stringFrame

StringArraySize ==
    /\ InMain(StringCallers)
    /\ \E array \in Handles(sarr) :
         LET r == string_array_size(array) IN
         /\ string_last_error' = Register(string_last_error, r.writes)
         /\ call' = [Call("string_array_size", <<array>>, string_last_error) EXCEPT
                        !.ret = r.ret, !.writes = r.writes]
    /\ UNCHANGED <<heap, chars, sarr, sadded, ub>>
    /\ UNCHANGED stringFrame

StringGetLastError ==
    /\ InMain(StringCallers)
    /\ LET r == string_get_last_error IN
         /\ string_last_error' = Register(string_last_error, r.writes)
         /\ call' = [Call("string_get_last_error", <<>>, string_last_error) EXCEPT
                        !.ret = r.ret, !.writes = r.writes]
    /\ UNCHANGED <<heap, chars, sarr, sadded, ub>>
    /\ UNCHANGED stringFrame

StringGetErrorMessage ==
    /\ InMain(StringCallers)
    /\ \E error \in ErrorCodes :
         LET r == string_get_error_message(error) IN
         /\ string_last_error' = Register(string_last_error, r.writes)
         /\ call' = [Call("string_get_error_message", <<error>>, string_last_error) EXCEPT
                        !.text = r.ret, !.writes = r.writes]
    /\ UNCHANGED <<heap, chars, sarr, sadded, ub>>
    /\ UNCHANGED stringFrame

\* Duplicate with one register for the two libraries: what string_duplicate
\* assigns to last_error lands in the math library's register as well.
Duplicate_shared ==
    /\ InMain(StringCallers) /\ Room(1)
    /\ \E str \in {NULL} \cup (IF chars[CallerAddr] # <<>> THEN {CallerAddr} ELSE {}),
          failAt \in 0..1 :
         LET r == string_duplicate(str, failAt) IN
         /\ heap' = FreeAll(r.heap, <<r.ret>>)
         /\ string_last_error' = Register(string_last_error, r.writes)
         /\ math_last_error' = Register(math_last_error, r.writes)
         /\ call' = [Call("string_duplicate", <<str, failAt>>, string_last_error) EXCEPT
                        !.ret = r.ret, !.writes = r.writes,
                        !.bytes = IF r.ret = NULL THEN <<>> ELSE r.chars[r.ret]]
    /\ UNCHANGED <<chars, sarr, sadded, ub, parr, padded, test>>

\* test_string.c, lines 15-18: char* dup = string_duplicate(...); the caller looks
\* at the duplicate (copy) and frees it before its next call.
Duplicate ==
    /\ InMain(StringCallers) /\ Room(1)
    /\ \E str \in StrArgs, failAt \in 0..1 :
         LET r == string_duplicate(str, failAt) IN
         /\ heap' = FreeAll(r.heap, <<r.ret>>)
         /\ string_last_error' = Register(string_last_error, r.writes)
         /\ call' = [Call("string_duplicate", <<str, failAt>>, string_last_error) EXCEPT
                        !.ret = r.ret, !.writes = r.writes,
                        !.bytes = IF r.ret = NULL THEN <<>> ELSE r.chars[r.ret]]
    /\ UNCHANGED <<chars, sarr, sadded, ub>>
    /\ UNCHANGED stringFrame

\* test_string.c, line 83: string_parse_int on a literal.
ParseInt ==
    /\ InMain(StringCallers)
    /\ \E x \in ParseArgs :
         LET r == string_parse_int(x.str, x.bytes) IN
         /\ string_last_error' = Register(string_last_error, r.writes)
         /\ call' = [Call("string_parse_int", <<x.str>>, string_last_error) EXCEPT
                        !.bytes = x.bytes, !.ret = r.ret, !.writes = r.writes]
    /\ UNCHANGED <<heap, chars, sarr, sadded, ub>>
    /\ UNCHANGED stringFrame

\* The caller overwrites its own buffer (or brings it back after releasing it).
CallerWrite ==
    /\ InMain(StringCallers)
    /\ \E bytes \in CallerBufs \ {chars[CallerAddr]} :
         /\ chars' = [chars EXCEPT ![CallerAddr] = bytes]
         /\ call' = [Call("caller_write", <<>>, string_last_error) EXCEPT !.bytes = bytes]
    /\ UNCHANGED <<heap, string_last_error, sarr, sadded, ub>>
    /\ UNCHANGED stringFrame

\* The caller's buffer goes out of existence.
CallerRelease ==
    /\ InMain(StringCallers) /\ chars[CallerAddr] # <<>>
    /\ chars' = [chars EXCEPT ![CallerAddr] = <<>>]
    /\ call' = Call("caller_release", <<>>, string_last_error)
    /\ UNCHANGED <<heap, string_last_error, sarr, sadded, ub>>
    /\ UNCHANGED stringFrame

\* test_string.c, lines 21-47 and 72-80: every string the library returns is
\* looked at (made) and freed by the caller before its next call.
Concatenate ==
    /\ InMain(StringCallers) /\ Room(1)
    /\ \E x \in LitArgs, y \in Lit2Args, failAt \in 0..1 :
         LET r == string_concatenate(x.str, x.bytes, y.str, y.bytes, failAt) IN
         /\ heap' = FreeAll(r.heap, <<r.ret>>)
         /\ string_last_error' = Register(string_last_error, r.writes)
         /\ call' = [Call("string_concatenate", <<x.str, y.str, failAt>>, string_last_error) EXCEPT
                        !.bytes = x.bytes, !.bytes2 = y.bytes, !.ret = r.ret,
                        !.made = r.made, !.writes = r.writes]
    /\ UNCHANGED <<chars, sarr, sadded, ub>>
    /\ UNCHANGED stringFrame

Substring ==
    /\ InMain(StringCallers) /\ Room(1)
    /\ \E x \in LitArgs, start \in {0, 1, 3}, length \in {1, 3}, failAt \in 0..1 :
         LET r == string_substring(x.str, x.bytes, start, length, failAt) IN
         /\ heap' = FreeAll(r.heap, <<r.ret>>)
         /\ string_last_error' = Register(string_last_error, r.writes)
         /\ call' = [Call("string_substring", <<x.str, start, length, failAt>>, string_last_error) EXCEPT
                        !.bytes = x.bytes, !.ret = r.ret, !.made = r.made,
                        !.writes = r.writes]
    /\ UNCHANGED <<chars, sarr, sadded, ub>>
    /\ UNCHANGED stringFrame

ToUpper ==
    /\ InMain(StringCallers) /\ Room(1)
    /\ \E x \in LitArgs, failAt \in 0..1 :
         LET r == string_to_upper(x.str, x.bytes, failAt) IN
         /\ heap' = FreeAll(r.heap, <<r.ret>>)
         /\ string_last_error' = Register(string_last_error, r.writes)
         /\ call' = [Call("string_to_upper", <<x.str, failAt>>, string_last_error) EXCEPT
                        !.bytes = x.bytes, !.ret = r.ret, !.made = r.made,
                        !.writes = r.writes]
    /\ UNCHANGED <<chars, sarr, sadded, ub>>
    /\ UNCHANGED stringFrame

ToLower ==
    /\ InMain(StringCallers) /\ Room(1)
    /\ \E x \in LitArgs, failAt \in 0..1 :
         LET r == string_to_lower(x.str, x.bytes, failAt) IN
         /\ heap' = FreeAll(r.heap, <<r.ret>>)
         /\ string_last_error' = Register(string_last_error, r.writes)
         /\ call' = [Call("string_to_lower", <<x.str, failAt>>, string_last_error) EXCEPT
                        !.bytes = x.bytes, !.ret = r.ret, !.made = r.made,
                        !.writes = r.writes]
    /\ UNCHANGED <<chars, sarr, sadded, ub>>
    /\ UNCHANGED stringFrame

Trim ==
    /\ InMain(StringCallers) /\ Room(1)
    /\ \E x \in LitArgs, failAt \in 0..1 :
         LET r == string_trim(x.str, x.bytes, failAt) IN
         /\ heap' = FreeAll(r.heap, <<r.ret>>)
         /\ string_last_error' = Register(string_last_error, r.writes)
         /\ call' = [Call("string_trim", <<x.str, failAt>>, string_last_error) EXCEPT
                        !.bytes = x.bytes, !.ret = r.ret, !.made = r.made,
                        !.writes = r.writes]
    /\ UNCHANGED <<chars, sarr, sadded, ub>>
    /\ UNCHANGED stringFrame

CountChars ==
    /\ InMain(StringCallers)
    /\ \E x \in LitArgs, ch \in {32, 98} :
         LET r == string_count_chars(x.str, x.bytes, ch) IN
         /\ string_last_error' = Register(string_last_error, r.writes)
         /\ call' = [Call("string_count_chars", <<x.str, ch>>, string_last_error) EXCEPT
                        !.bytes = x.bytes, !.ret = r.ret, !.writes = r.writes]
    /\ UNCHANGED <<heap, chars, sarr, sadded, ub>>
    /\ UNCHANGED stringFrame

CountWords ==
    /\ InMain(StringCallers)
    /\ \E x \in LitArgs :
         LET r == string_count_words(x.str, x.bytes) IN
         /\ string_last_error' = Register(string_last_error, r.writes)
         /\ call' = [Call("string_count_words", <<x.str>>, string_last_error) EXCEPT
                        !.bytes = x.bytes, !.ret = r.ret, !.writes = r.writes]
    /\ UNCHANGED <<heap, chars, sarr, sadded, ub>>
    /\ UNCHANGED stringFrame

StartsWith ==
    /\ InMain(StringCallers)
    /\ \E x \in LitArgs, y \in Lit2Args :
         LET r == string_starts_with(x.str, x.bytes, y.str, y.bytes) IN
         /\ string_last_error' = Register(string_last_error, r.writes)
         /\ call' = [Call("string_starts_with", <<x.str, y.str>>, string_last_error) EXCEPT
                        !.bytes = x.bytes, !.bytes2 = y.bytes, !.ret = r.ret,
                        !.writes = r.writes]
    /\ UNCHANGED <<heap, chars, sarr, sadded, ub>>
    /\ UNCHANGED stringFrame

EndsWith ==
    /\ InMain(StringCallers)
    /\ \E x \in LitArgs, y \in Lit2Args :
         LET r == string_ends_with(x.str, x.bytes, y.str, y.bytes) IN
         /\ string_last_error' = Register(string_last_error, r.writes)
         /\ call' = [Call("string_ends_with", <<x.str, y.str>>, string_last_error) EXCEPT
                        !.bytes = x.bytes, !.bytes2 = y.bytes, !.ret = r.ret,
                        !.writes = r.writes]
    /\ UNCHANGED <<heap, chars, sarr, sadded, ub>>
    /\ UNCHANGED stringFrame

Contains ==
    /\ InMain(StringCallers)
    /\ \E x \in LitArgs, y \in Lit2Args :
         LET r == string_contains(x.str, x.bytes, y.str, y.bytes) IN
         /\ string_last_error' = Register(string_last_error, r.writes)
         /\ call' = [Call("string_contains", <<x.str, y.str>>, string_last_error) EXCEPT
                        !.bytes = x.bytes, !.bytes2 = y.bytes, !.ret = r.ret,
                        !.writes = r.writes]
    /\ UNCHANGED <<heap, chars, sarr, sadded, ub>>
    /\ UNCHANGED stringFrame

FormatInt ==
    /\ InMain(StringCallers) /\ Room(1)
    /\ \E value \in {0 - 7, 0, 42}, failAt \in 0..1 :
         LET r == string_format_int(value, failAt) IN
         /\ heap' = FreeAll(r.heap, <<r.ret>>)
         /\ string_last_error' = Register(string_last_error, r.writes)
         /\ call' = [Call("string_format_int", <<value, failAt>>, string_last_error) EXCEPT
                        !.ret = r.ret, !.made = r.made, !.writes = r.writes]
    /\ UNCHANGED <<chars, sarr, sadded, ub>>
    /\ UNCHANGED stringFrame

FormatFloat ==
    /\ InMain(StringCallers) /\ Room(1)
    /\ \E value \in FloatVals, precision \in {0 - 1, 0, 1, 11}, failAt \in 0..1 :
         LET r == string_format_float(value, precision, failAt) IN
         /\ heap' = FreeAll(r.heap, <<r.ret>>)
         /\ string_last_error' = Register(string_last_error, r.writes)
         /\ call' = [Call("string_format_float", <<value[1], value[2], precision, failAt>>,
                          string_last_error) EXCEPT
                        !.ret = r.ret, !.made = r.made, !.writes = r.writes]
    /\ UNCHANGED <<chars, sarr, sadded, ub>>
    /\ UNCHANGED stringFrame

ParseFloat ==
    /\ InMain(StringCallers)
    /\ \E x \in ParseFloatArgs :
         LET r == string_parse_float(x.str, x.bytes) IN
         /\ string_last_error' = Register(string_last_error, r.writes)
         /\ call' = [Call("string_parse_float", <<x.str>>, string_last_error) EXCEPT
                        !.bytes = x.bytes, !.quot = r.ret, !.writes = r.writes]
    /\ UNCHANGED <<heap, chars, sarr, sadded, ub>>
    /\ UNCHANGED stringFrame

\* The caller has looked at what its last call returned and goes on in main.
Resume ==
    /\ call.op # "main"
    /\ call' = Call("main", <<>>, MATH_SUCCESS)
    /\ UNCHANGED <<heap, chars, math_last_error, string_last_error, parr, sarr,
                   padded, sadded, ub, test>>

NextString ==
    \/ Duplicate \/ Concatenate \/ Substring \/ ToUpper \/ ToLower \/ Trim
    \/ CountChars \/ CountWords \/ StartsWith \/ EndsWith \/ Contains
    \/ CreateStringArray \/ DestroyStringArray \/ AddString \/ GetString
    \/ StringArraySize \/ FormatInt \/ FormatFloat \/ ParseInt \/ ParseFloat
    \/ StringGetLastError \/ StringGetErrorMessage
    \/ CallerWrite \/ CallerRelease

Next == NextMath \/ NextString \/ Resume

Spec == Init /\ [][Next]_vars

\* ---- a program linked with both libraries
InitBoth ==
    /\ heap = [a \in Addrs |-> "free"]
    /\ chars = [a \in Addrs \cup {CallerAddr} |-> IF a = CallerAddr THEN <<97, 98, NUL>> ELSE <<>>]
    /\ math_last_error = MATH_SUCCESS
    /\ string_last_error = STRING_SUCCESS
    /\ parr = NoArray
    /\ sarr = NoArray
    /\ padded = <<>>
    /\ sadded = <<>>
    /\ ub = FALSE
    /\ test = "both"
    /\ call = Call("main", <<>>, MATH_SUCCESS)

\* Its calls are those of the two libraries, in any order.
SpecBoth == InitBoth /\ [][Next]_vars

\* ================================================================== claims
\* What a Point2D* returned by math_get_point points at.
PointAt(p) == parr.elems[p.off + 1]
\* The string behind a char* returned by string_array_get.
StringAt(p) == CStr(chars[p])

\* ---- C1
\* The shape of a live collection: count within 0..capacity, a buffer of
\* capacity slots that is a live allocation of the right type.
Shape(arr, tag, ctag) ==
    Live(arr) =>
        /\ 0 <= arr.count /\ arr.count <= arr.capacity
        /\ Len(arr.elems) = arr.capacity
        /\ arr.self \in Addrs /\ heap[arr.self] = ctag
        /\ arr.buf \in Addrs /\ heap[arr.buf] = tag
        /\ arr.buf # arr.self
\* What a step may do to a collection: a successful create makes one with the
\* capacity it was given; every other step that leaves it live leaves its
\* capacity, its address and its buffer's address as they were.
Fixed(arr, arrNext, create) ==
    /\ (call'.op = create /\ call'.ret # NULL) =>
           /\ arrNext.self = call'.ret
           /\ arrNext.capacity = call'.args[1]
    /\ (Live(arr) /\ Live(arrNext)) =>
           /\ arrNext.self = arr.self
           /\ arrNext.capacity = arr.capacity
           /\ arrNext.buf = arr.buf
    /\ (~Live(arr) /\ Live(arrNext)) => call'.op = create
\* C1: for PointArray and StringArray alike, in every reachable state of a live
\* collection 0 <= count <= capacity, and across every step the capacity stays
\* the value passed to create and the buffer stays the one create allocated.
C1_CapacityAndBufferFixed ==
    /\ [](Shape(parr, "Point2D[]", "PointArray") /\ Shape(sarr, "char*[]", "StringArray"))
    /\ [][/\ Fixed(parr, parr', "math_create_point_array")
          /\ Fixed(sarr, sarr', "string_array_create")]_vars
\* A StringArray filled to its capacity, on which one more append was refused.
C1_Witness ==
    /\ Live(sarr) /\ sarr.capacity = MaxCap /\ sarr.count = sarr.capacity
    /\ call.op = "string_array_add" /\ call.ret = -1 /\ call.args[1] # NULL
    /\ call.args[2] # NULL

\* ---- C2
\* An append with a present handle, a present item and no failing allocation.
GoodAppend(arr, add) ==
    /\ call'.op = add /\ call'.args[1] # NULL /\ call'.args[2] # NULL
    /\ (add = "string_array_add" => call'.args[3] = 0)
Filling(arr, arrNext, given, givenNext, add, reg, IOB) ==
    /\ (GoodAppend(arr, add) /\ arr.count < arr.capacity) =>
           /\ call'.ret = 0
           /\ arrNext.count = arr.count + 1
           /\ Len(givenNext) = Len(given) + 1
    /\ (GoodAppend(arr, add) /\ arr.count = arr.capacity) =>
           /\ call'.ret = -1
           /\ reg = IOB
           /\ arrNext = arr
           /\ givenNext = given
           /\ chars' = chars
\* C2: after create(c), each of the first c appends of a present item (with no
\* allocation failing) succeeds, so size() is the number of appends made and
\* reaches c; every append on the full collection returns -1, leaves
\* IndexOutOfBounds in the register and leaves count and the elements alone.
C2_FillThenRefuse ==
    /\ [](Live(parr) => math_get_point_count(parr.self).ret = Len(padded))
    /\ [](Live(sarr) => string_array_size(sarr.self).ret = Len(sadded))
    /\ [][/\ Filling(parr, parr', padded, padded', "math_add_point",
                     math_last_error', MATH_ERROR_INDEX_OUT_OF_BOUNDS)
          /\ Filling(sarr, sarr', sadded, sadded', "string_array_add",
                     string_last_error', STRING_ERROR_INDEX_OUT_OF_BOUNDS)]_vars
\* A PointArray that took MaxCap points and then refused one more.
C2_Witness ==
    /\ Live(parr) /\ parr.capacity = MaxCap /\ Len(padded) = MaxCap
    /\ call.op = "math_add_point" /\ call.ret = -1 /\ call.args[1] # NULL
    /\ call.args[2] # NULL /\ math_last_error = MATH_ERROR_INDEX_OUT_OF_BOUNDS

\* ---- C3
\* A successful append: slot k = count takes the item, count becomes k + 1, the
\* slots below k keep what they held.
Appended(arr, arrNext, add, item) ==
    (call'.op = add /\ call'.ret = 0) =>
        /\ arr.count < arr.capacity
        /\ arrNext.count = arr.count + 1
        /\ item
        /\ \A i \in 1..arr.count : arrNext.elems[i] = arr.elems[i]
\* C3: a successful append on a collection with count = k < capacity returns 0,
\* puts the item's value in slot k, makes count k + 1 and leaves the slots below
\* k alone; so get(i), for every i below count, gives the value handed to the
\* (i+1)-th successful append.
C3_AppendStoresInOrder ==
    /\ [](Live(parr) => \A i \in 0..(parr.count - 1) :
             LET g == math_get_point(parr.self, i) IN
             g.ret # NullElem /\ PointAt(g.ret) = padded[i + 1])
    /\ [](Live(sarr) => \A i \in 0..(sarr.count - 1) :
             LET g == string_array_get(sarr.self, i) IN
             g.ret # NULL /\ StringAt(g.ret) = sadded[i + 1])
    /\ [][/\ Appended(parr, parr', "math_add_point",
                      parr'.elems[parr.count + 1] = CallerPoints[call'.args[2]])
          /\ Appended(sarr, sarr', "string_array_add",
                      CStr(chars'[sarr'.elems[sarr.count + 1]]) = CStr(chars[call'.args[2]]))
         ]_vars
\* Two different points appended, the second one just now.
C3_Witness ==
    /\ call.op = "math_add_point" /\ call.ret = 0
    /\ parr.count = 2 /\ padded[1] # padded[2]
    /\ PointAt(math_get_point(parr.self, 1).ret) = CallerPoints[call.args[2]]

\* ---- C4
\* C4: get(index) returns an absent reference and NullReference for an absent
\* handle, an absent reference and IndexOutOfBounds for every index >= count
\* (below the capacity or not), otherwise the stored element and Success; it
\* never changes the collection or the memory behind it.
C4_GetChecksCount ==
    [][/\ call'.op = "math_get_point" =>
             LET array == call'.args[1]
                 index == call'.args[2] IN
             /\ array = NULL =>
                    call'.elem = NullElem /\ math_last_error' = MATH_ERROR_NULL_POINTER
             /\ (array # NULL /\ index >= parr.count) =>
                    call'.elem = NullElem /\ math_last_error' = MATH_ERROR_INDEX_OUT_OF_BOUNDS
             /\ (array # NULL /\ index < parr.count) =>
                    /\ call'.elem = [base |-> parr.buf, off |-> index]
                    /\ PointAt(call'.elem) = padded[index + 1]
                    /\ math_last_error' = MATH_SUCCESS
             /\ parr' = parr /\ heap' = heap
       /\ call'.op = "string_array_get" =>
             LET array == call'.args[1]
                 index == call'.args[2] IN
             /\ array = NULL =>
                    call'.ret = NULL /\ string_last_error' = STRING_ERROR_NULL_POINTER
             /\ (array # NULL /\ index >= sarr.count) =>
                    call'.ret = NULL /\ string_last_error' = STRING_ERROR_INDEX_OUT_OF_BOUNDS
             /\ (array # NULL /\ index < sarr.count) =>
                    /\ call'.ret = sarr.elems[index + 1]
                    /\ StringAt(call'.ret) = sadded[index + 1]
                    /\ string_last_error' = STRING_SUCCESS
             /\ sarr' = sarr /\ heap' = heap /\ chars' = chars
      ]_vars
\* A get refused at an index that is at or above count and below the capacity.
C4_Witness ==
    /\ call.op = "math_get_point" /\ call.args[1] # NULL
    /\ call.args[2] >= parr.count /\ call.args[2] < parr.capacity
    /\ call.elem = NullElem /\ math_last_error = MATH_ERROR_INDEX_OUT_OF_BOUNDS

\* ---- C5
\* C5: when string_array_add is given a present handle and a present string,
\* count < capacity, and the duplication cannot allocate, it returns -1, leaves
\* OutOfMemory in the register, does not increment count, and every get(i) with
\* i < count gives what it gave before.
C5_FailedCopyKeepsCount ==
    [][(/\ call'.op = "string_array_add"
        /\ call'.args[1] # NULL /\ call'.args[2] # NULL
        /\ sarr.count < sarr.capacity
        /\ call'.args[3] = 1)
       => /\ call'.ret = -1
          /\ string_last_error' = STRING_ERROR_OUT_OF_MEMORY
          /\ sarr'.count = sarr.count
          /\ sarr'.self = sarr.self /\ sarr'.capacity = sarr.capacity
          /\ \A i \in 1..sarr.count :
                /\ sarr'.elems[i] = sarr.elems[i]
                /\ chars'[sarr'.elems[i]] = chars[sarr.elems[i]]
          /\ heap' = heap
      ]_vars
\* An append that failed for want of memory on a collection holding a string.
C5_Witness ==
    /\ call.op = "string_array_add" /\ call.args[1] # NULL /\ call.args[2] # NULL
    /\ call.args[3] = 1 /\ call.ret = -1
    /\ string_last_error = STRING_ERROR_OUT_OF_MEMORY
    /\ sarr.count >= 1 /\ sarr.count < sarr.capacity

\* ---- C6
\* C6: every stored string is a copy in an allocation of its own, never the
\* caller's storage, and holds what the caller's string held when it was added,
\* whatever the caller writes to its buffer or does with it afterwards.
C6_DeepCopyIsolation ==
    /\ [](Live(sarr) => \A i \in 1..sarr.count :
             /\ sarr.elems[i] \in Addrs
             /\ sarr.elems[i] # CallerAddr
             /\ heap[sarr.elems[i]] = "char[]"
             /\ \A j \in 1..sarr.count : sarr.elems[j] = sarr.elems[i] => j = i
             /\ StringAt(string_array_get(sarr.self, i - 1).ret) = sadded[i])
    /\ [][call'.op \in {"caller_write", "caller_release"} =>
             /\ sarr' = sarr
             /\ \A i \in 1..sarr.count :
                   CStr(chars'[sarr'.elems[i]]) = CStr(chars[sarr.elems[i]])
         ]_vars
\* The caller has just overwritten or given up the buffer whose string it added
\* last, and the buffer no longer holds that string.
C6_Witness ==
    /\ Live(sarr) /\ sarr.count >= 1
    /\ call.op \in {"caller_write", "caller_release"}
    /\ (chars[CallerAddr] = <<>> \/ CStr(chars[CallerAddr]) # sadded[sarr.count])
    /\ StringAt(string_array_get(sarr.self, sarr.count - 1).ret) = sadded[sarr.count]
    /\ sadded[sarr.count] # <<>>

\* ---- C7
\* The addresses that hold a live allocation.
LiveAddrs(h) == {a \in Addrs : h[a] # "free"}
\* The allocations a StringArray owns: itself, its buffer, its count strings.
Owned(arr) == {arr.self, arr.buf} \cup {arr.elems[i] : i \in 1..arr.count}
\* C7: string_array_destroy on a live collection of n strings frees the n
\* stored strings, then the buffer, then the container, each of them a live
\* allocation and none twice; until then the collection owns exactly its n + 2
\* live allocations (a failed append leaves none behind), and afterwards none
\* of them is live.
C7_DestroyReleasesAll ==
    /\ [](~ub)
    /\ [](test = "test_string" =>
             IF Live(sarr)
             THEN LiveAddrs(heap) = Owned(sarr) /\ Cardinality(Owned(sarr)) = sarr.count + 2
             ELSE LiveAddrs(heap) = {})
    /\ [][(call'.op = "string_array_destroy" /\ call'.args[1] # NULL) =>
             LET n == sarr.count
                 frees == call'.frees IN
             /\ Len(frees) = n + 2
             /\ \A i \in 1..n : frees[i] = sarr.elems[i]
             /\ frees[n + 1] = sarr.buf
             /\ frees[n + 2] = sarr.self
             /\ \A i \in 1..(n + 2) :
                   /\ frees[i] \in LiveAddrs(heap)
                   /\ frees[i] \notin LiveAddrs(heap')
                   /\ \A j \in 1..(n + 2) : frees[j] = frees[i] => j = i
             /\ ~Live(sarr')
         ]_vars
\* A full StringArray has just been destroyed.
C7_Witness ==
    /\ call.op = "string_array_destroy" /\ call.args[1] # NULL
    /\ Len(call.frees) = MaxCap + 2
    /\ LiveAddrs(heap) = {} /\ ~Live(sarr) /\ ~ub

\* ---- C8
\* What create(capacity) must do, for one of the two collections.
Created(arr, arrNext, create, reg, INVALID, OOM, SUCCESS) ==
    call'.op = create =>
        LET capacity == call'.args[1]
            failAt == call'.args[2]
            starved == failAt = 1 \/ failAt = 2 IN
        /\ capacity = 0 =>
               /\ call'.ret = NULL /\ reg = INVALID
               /\ heap' = heap /\ ~Live(arrNext)
        /\ (capacity # 0 /\ starved) =>
               /\ call'.ret = NULL /\ reg = OOM
               /\ heap' = heap /\ ~Live(arrNext)
        /\ (capacity # 0 /\ ~starved) =>
               /\ call'.ret # NULL /\ reg = SUCCESS
               /\ arrNext.self = call'.ret
               /\ arrNext.count = 0
               /\ arrNext.capacity = capacity
               /\ LiveAddrs(heap') = LiveAddrs(heap) \cup {arrNext.self, arrNext.buf}
\* C8: create(0) returns an absent handle with InvalidArgument and allocates
\* nothing; when the container or the buffer cannot be allocated it returns an
\* absent handle with OutOfMemory and leaves no allocation behind; otherwise it
\* returns a collection with count 0 and the capacity asked for, with Success.
C8_CreateOutcomes ==
    [][/\ Created(parr, parr', "math_create_point_array", math_last_error',
                  MATH_ERROR_INVALID_ARGUMENT, MATH_ERROR_OUT_OF_MEMORY, MATH_SUCCESS)
       /\ Created(sarr, sarr', "string_array_create", string_last_error',
                  STRING_ERROR_INVALID_ARGUMENT, STRING_ERROR_OUT_OF_MEMORY, STRING_SUCCESS)
      ]_vars
\* A create whose second allocation, the buffer, failed.
C8_Witness ==
    /\ call.op = "math_create_point_array" /\ call.args[1] > 0 /\ call.args[2] = 2
    /\ call.ret = NULL /\ math_last_error = MATH_ERROR_OUT_OF_MEMORY
    /\ LiveAddrs(heap) = {} /\ ~Live(parr)

\* ---- C9
\* The operations that report through the register of their library.
MathFallible ==
    {"math_add", "math_subtract", "math_multiply", "math_divide", "math_power",
     "math_sqrt", "math_sum_array",
     "math_average_array", "math_find_max", "math_find_min",
     "math_string_length", "math_string_reverse", "math_string_compare",
     "math_distance_2d", "math_distance_3d", "math_circle_area",
     "math_circle_circumference",
     "math_create_point_array", "math_destroy_point_array", "math_add_point",
     "math_get_point", "math_get_point_count",
     "math_sort_array_with_callback", "math_process_with_progress"}
StringFallible ==
    {"string_duplicate", "string_concatenate", "string_substring", "string_to_upper",
     "string_to_lower", "string_trim", "string_count_chars", "string_count_words",
     "string_starts_with", "string_ends_with", "string_contains",
     "string_array_create", "string_array_destroy", "string_array_add",
     "string_array_get", "string_array_size",
     "string_format_int", "string_format_float", "string_parse_int",
     "string_parse_float"}
\* The operations that take one required pointer, as their first argument, and
\* those that take two, as their first two.
OnePointer ==
    {"math_destroy_point_array", "math_get_point_count", "math_get_point",
     "math_sum_array", "math_string_length", "math_string_reverse",
     "math_circle_area", "math_circle_circumference",
     "string_array_destroy", "string_array_size", "string_array_get",
     "string_duplicate", "string_substring", "string_to_upper", "string_to_lower",
     "string_trim", "string_count_chars", "string_count_words",
     "string_parse_int", "string_parse_float"}
TwoPointers ==
    {"math_add_point", "string_array_add", "math_string_compare",
     "math_distance_2d", "math_distance_3d", "string_concatenate",
     "string_starts_with", "string_ends_with", "string_contains"}
\* The position, among the arguments of the operation op, of the number of the
\* malloc that fails (0 when op allocates nothing).
FailArg(op) ==
    CASE op \in {"math_create_point_array", "string_array_create", "string_duplicate",
                 "math_string_reverse", "string_to_upper", "string_to_lower",
                 "string_trim", "string_format_int"} -> 2
      [] op \in {"string_array_add", "string_concatenate"} -> 3
      [] op \in {"string_substring", "string_format_float"} -> 4
      [] OTHER -> 0
\* The bytes b are empty, or white space, an optional sign and one digit or more.
WellFormedInt(b) ==
    LET n == Len(b) - 1 IN
    \/ n = 0
    \/ \E s \in 0..n, g \in 0..1 :
         /\ s + g < n
         /\ \A i \in 1..s : b[i] = 32
         /\ g = 1 => b[s + 1] \in {43, 45}
         /\ \A i \in (s + g + 1)..n : b[i] \in 48..57
\* The bytes b are empty, or white space, an optional sign and digits with at
\* most one point among them.
WellFormedFloat(b) ==
    LET n == Len(b) - 1 IN
    \/ n = 0
    \/ \E s \in 0..n, g \in 0..1 :
         /\ s + g < n
         /\ \A i \in 1..s : b[i] = 32
         /\ g = 1 => b[s + 1] \in {43, 45}
         /\ \A i \in (s + g + 1)..n : b[i] \in 48..57 \cup {46}
         /\ \E i \in (s + g + 1)..n : b[i] \in 48..57
         /\ Cardinality({i \in (s + g + 1)..n : b[i] = 46}) <= 1
\* Whether the call c, made in the current state, meets every precondition of
\* its operation: handles, pointers and hooks present, capacity and length not
\* zero, index below count, room left, divisor not zero, memory to be had.
Succeeds(c) ==
    LET a == c.args IN
    /\ c.op \in OnePointer => a[1] # NULL
    /\ c.op \in TwoPointers => a[1] # NULL /\ a[2] # NULL
    /\ FailArg(c.op) # 0 => a[FailArg(c.op)] = 0
    /\ CASE c.op \in {"math_create_point_array", "string_array_create"} -> a[1] # 0
          [] c.op = "math_add_point" -> parr.count < parr.capacity
          [] c.op = "string_array_add" -> sarr.count < sarr.capacity
          [] c.op = "math_get_point" -> a[2] < parr.count
          [] c.op = "string_array_get" -> a[2] < sarr.count
          [] c.op = "math_divide" -> a[2] # 0
          [] c.op = "math_sqrt" -> a[1] >= 0
          [] c.op \in {"math_circle_area", "math_circle_circumference"} ->
                 a[1] # NULL => Circles[a[1]].radius >= 0
          [] c.op \in {"math_average_array", "math_find_max", "math_find_min"} ->
                 a[1] # NULL /\ a[2] # 0
          [] c.op \in {"math_sort_array_with_callback", "math_process_with_progress"} ->
                 a[1] # NULL /\ a[2] # 0 /\ a[3] # NULL
          [] c.op = "string_substring" -> a[1] # NULL => a[2] < strlen(c.bytes)
          [] c.op = "string_format_float" -> a[3] \in 0..10
          [] c.op = "string_parse_int" -> a[1] # NULL => WellFormedInt(c.bytes)
          [] c.op = "string_parse_float" -> a[1] # NULL => WellFormedFloat(c.bytes)
          [] OTHER -> TRUE
\* C9: when a fallible operation returns, its library's register holds Success
\* if the operation succeeded and a failure kind assigned by this very call if
\* it failed, whatever the register held before; reading the register or
\* looking up a message leaves the register as it was.
C9_NoStaleError ==
    [][/\ call'.op \in MathFallible =>
             /\ call'.writes # <<>>
             /\ math_last_error' = call'.writes[Len(call'.writes)]
             /\ (math_last_error' = MATH_SUCCESS) <=> Succeeds(call')
       /\ call'.op \in StringFallible =>
             /\ call'.writes # <<>>
             /\ string_last_error' = call'.writes[Len(call'.writes)]
             /\ (string_last_error' = STRING_SUCCESS) <=> Succeeds(call')
       /\ call'.op = "math_get_last_error" =>
             call'.ret = math_last_error /\ math_last_error' = math_last_error
       /\ call'.op = "string_get_last_error" =>
             call'.ret = string_last_error /\ string_last_error' = string_last_error
       /\ call'.op \in {"math_get_error_message", "string_get_error_message"} =>
             math_last_error' = math_last_error /\ string_last_error' = string_last_error
      ]_vars
\* A successful math_add_point made while the register still held the
\* NullReference of an earlier call.
C9_Witness ==
    /\ call.op = "math_add_point" /\ call.ret = 0
    /\ call.before = MATH_ERROR_NULL_POINTER
    /\ math_last_error = MATH_SUCCESS

\* ---- C10
\* The operations of the collections and of the callback hooks.
PublicOps ==
    {"math_create_point_array", "math_destroy_point_array", "math_add_point",
     "math_get_point", "math_get_point_count",
     "string_array_create", "string_array_destroy", "string_array_add",
     "string_array_get", "string_array_size",
     "math_sort_array_with_callback", "math_process_with_progress"}
\* C10 as claimed: every operation of the collections and the hooks assigns the
\* register exactly once per call, on every path.
C10_ExactlyOneWrite ==
    call.op \in PublicOps => Len(call.writes) = 1
\* C10 as amended: every such operation assigns the register exactly once per
\* call, except a successful string_array_add, which assigns it twice:
\* string_duplicate sets Success and string_array_add sets Success again.
C10_WritesPerCall ==
    call.op \in PublicOps =>
        IF call.op = "string_array_add" /\ call.ret = 0
        THEN call.writes = <<STRING_SUCCESS, STRING_SUCCESS>>
        ELSE Len(call.writes) = 1
\* A successful string_array_add, with its two assignments.
C10_Witness ==
    /\ call.op = "string_array_add" /\ call.ret = 0
    /\ Len(call.writes) = 2 /\ string_last_error = STRING_SUCCESS

\* ---- C11
ArrayStats == {"math_average_array", "math_find_max", "math_find_min"}
Hooked == {"math_sort_array_with_callback", "math_process_with_progress"}
\* The kinds of one library, by the library the operation belongs to.
KindsOf(op) ==
    IF op \in MathFallible
    THEN [ok |-> MATH_SUCCESS, null |-> MATH_ERROR_NULL_POINTER,
          invalid |-> MATH_ERROR_INVALID_ARGUMENT, bounds |-> MATH_ERROR_INDEX_OUT_OF_BOUNDS,
          memory |-> MATH_ERROR_OUT_OF_MEMORY, zero |-> MATH_ERROR_DIVISION_BY_ZERO,
          parse |-> MATH_SUCCESS]
    ELSE [ok |-> STRING_SUCCESS, null |-> STRING_ERROR_NULL_POINTER,
          invalid |-> STRING_ERROR_INVALID_ARGUMENT, bounds |-> STRING_ERROR_INDEX_OUT_OF_BOUNDS,
          memory |-> STRING_ERROR_OUT_OF_MEMORY, zero |-> STRING_SUCCESS,
          parse |-> STRING_ERROR_PARSE_ERROR]
\* The required pointer arguments of the call c (for the hooks, the zero length
\* counts as absent); nullStats says whether the array of the three array
\* statistics is one of them.
Absent(c, nullStats) ==
    LET a == c.args IN
    CASE c.op \in OnePointer -> a[1] = NULL
      [] c.op \in TwoPointers -> a[1] = NULL \/ a[2] = NULL
      [] c.op \in Hooked -> a[1] = NULL \/ a[3] = NULL \/ a[2] = 0
      [] c.op \in ArrayStats -> nullStats /\ a[1] = NULL
      [] OTHER -> FALSE
\* The kind of the value argument of c that violates a precondition in the
\* current state (ok when none does).
BadValue(c, nullStats) ==
    LET a == c.args
        k == KindsOf(c.op) IN
    CASE c.op \in {"math_create_point_array", "string_array_create"} ->
             IF a[1] = 0 THEN k.invalid ELSE k.ok
      [] c.op = "math_add_point" -> IF parr.count >= parr.capacity THEN k.bounds ELSE k.ok
      [] c.op = "string_array_add" -> IF sarr.count >= sarr.capacity THEN k.bounds ELSE k.ok
      [] c.op = "math_get_point" -> IF a[2] >= parr.count THEN k.bounds ELSE k.ok
      [] c.op = "string_array_get" -> IF a[2] >= sarr.count THEN k.bounds ELSE k.ok
      [] c.op \in ArrayStats ->
             IF a[2] = 0 \/ (~nullStats /\ a[1] = NULL) THEN k.invalid ELSE k.ok
      [] c.op = "math_divide" -> IF a[2] = 0 THEN k.zero ELSE k.ok
      [] c.op = "math_sqrt" -> IF a[1] < 0 THEN k.invalid ELSE k.ok
      [] c.op \in {"math_circle_area", "math_circle_circumference"} ->
             IF Circles[a[1]].radius < 0 THEN k.invalid ELSE k.ok
      [] c.op = "string_substring" -> IF a[2] >= strlen(c.bytes) THEN k.bounds ELSE k.ok
      [] c.op = "string_format_float" -> IF a[3] \notin 0..10 THEN k.invalid ELSE k.ok
      [] c.op = "string_parse_int" -> IF WellFormedInt(c.bytes) THEN k.ok ELSE k.parse
      [] c.op = "string_parse_float" -> IF WellFormedFloat(c.bytes) THEN k.ok ELSE k.parse
      [] OTHER -> k.ok
\* Whether an allocation the call c needs cannot be had in the current state.
Starved(c) == FailArg(c.op) # 0 /\ c.args[FailArg(c.op)] # 0
\* The first applicable cause, in the order absent pointer, bad value, memory.
FirstCause(c, nullStats) ==
    IF Absent(c, nullStats) THEN KindsOf(c.op).null
    ELSE IF BadValue(c, nullStats) # KindsOf(c.op).ok THEN BadValue(c, nullStats)
    ELSE IF Starved(c) THEN KindsOf(c.op).memory
    ELSE KindsOf(c.op).ok
Precedence(nullStats) ==
    /\ call'.op \in MathFallible => math_last_error' = FirstCause(call', nullStats)
    /\ call'.op \in StringFallible => string_last_error' = FirstCause(call', nullStats)
\* C11 as claimed: the register is left with the first applicable cause in the
\* order NullReference, InvalidArgument/IndexOutOfBounds, OutOfMemory; an absent
\* array given to math_average_array, math_find_max or math_find_min is
\* reported as NullReference whatever the length.
C11_ErrorPrecedence == [][Precedence(TRUE)]_vars
\* C11 as amended: the same order, except that math_average_array,
\* math_find_max and math_find_min report an absent array as InvalidArgument,
\* the kind they also report for a length of zero.
C11_PrecedenceButArrayStats == [][Precedence(FALSE)]_vars
\* math_find_max was given an absent array and a length of zero.
C11_Witness ==
    /\ call.op = "math_find_max" /\ call.args[1] = NULL /\ call.args[2] = 0
    /\ call.ret = 0 /\ math_last_error = MATH_ERROR_INVALID_ARGUMENT

\* ---- C12
\* C12 as claimed: every call of math_get_point_count or string_array_size
\* returns the collection's count and leaves the register at Success, whatever
\* handle it was given.
C12_SizeNeverFails ==
    /\ call.op = "math_get_point_count" =>
           call.ret = parr.count /\ math_last_error = MATH_SUCCESS
    /\ call.op = "string_array_size" =>
           call.ret = sarr.count /\ string_last_error = STRING_SUCCESS
\* C12 as amended: given a present handle the call returns the count and leaves
\* Success; given an absent handle it returns 0 and leaves NullReference.
C12_SizeFailsOnAbsentHandle ==
    /\ call.op = "math_get_point_count" =>
           IF call.args[1] = NULL
           THEN call.ret = 0 /\ math_last_error = MATH_ERROR_NULL_POINTER
           ELSE /\ call.ret = parr.count /\ call.ret = Len(padded)
                /\ math_last_error = MATH_SUCCESS
    /\ call.op = "string_array_size" =>
           IF call.args[1] = NULL
           THEN call.ret = 0 /\ string_last_error = STRING_ERROR_NULL_POINTER
           ELSE /\ call.ret = sarr.count /\ call.ret = Len(sadded)
                /\ string_last_error = STRING_SUCCESS
\* string_array_size was given an absent handle while a collection holding a
\* string is live.
C12_Witness ==
    /\ call.op = "string_array_size" /\ call.args[1] = NULL
    /\ Live(sarr) /\ sarr.count >= 1 /\ sarr.count < sarr.capacity
    /\ call.ret = 0 /\ string_last_error = STRING_ERROR_NULL_POINTER

\* ---- C13
\* How many times the value v occurs in the buffer b.
Occurrences(b, v) == Cardinality({i \in DOMAIN b : b[i] = v})
\* The buffer b is non-decreasing under the comparator.
Sorted(b, compare) ==
    \A i \in 1..(Len(b) - 1) : Compare(compare, b[i], b[i + 1]) <= 0
\* The sort was given no buffer, no comparator or no element.
SortRefused(c) == c.args[1] = NULL \/ c.args[3] = NULL \/ c.args[2] = 0
\* C13: when math_sort_array_with_callback returns from a call with a buffer of
\* n >= 1 values and a comparator, the buffer is non-decreasing under the
\* comparator, holds the values it held on entry, each as often, and the
\* register is Success; with no buffer, no comparator or n = 0 the register is
\* NullReference, the comparator was not called and the buffer is as it was.
C13_SortSortsAndPermutes ==
    call.op = "math_sort_array_with_callback" =>
        IF SortRefused(call)
        THEN /\ math_last_error = MATH_ERROR_NULL_POINTER
             /\ call.compares = 0 /\ call.swaps = 0
             /\ call.out = call.ints
        ELSE /\ math_last_error = MATH_SUCCESS
             /\ Len(call.out) = call.args[2]
             /\ Sorted(call.out, call.args[3])
             /\ \A v \in IntVals : Occurrences(call.out, v) = Occurrences(call.ints, v)
\* A buffer of MaxSort values with a tie in it, whose first value comes after
\* its last under the comparator, has just been sorted.
C13_Witness ==
    /\ call.op = "math_sort_array_with_callback" /\ ~SortRefused(call)
    /\ call.args[2] = MaxSort
    /\ \E i \in 1..(MaxSort - 1) : Compare(call.args[3], call.ints[i], call.ints[i + 1]) = 0
    /\ Compare(call.args[3], call.ints[1], call.ints[MaxSort]) > 0
    /\ call.out # call.ints /\ Sorted(call.out, call.args[3])
    /\ math_last_error = MATH_SUCCESS

\* ---- C14
\* C14: math_sort_array_with_callback given a buffer that is already
\* non-decreasing under the comparator makes no swap and leaves every position
\* as it was; so sorting the buffer it returned once more gives the same buffer.
C14_SortedStaysPut ==
    (call.op = "math_sort_array_with_callback" /\ ~SortRefused(call)) =>
        LET again == math_sort_array_with_callback(call.args[1], call.args[2],
                                                   call.args[3], call.out) IN
        /\ Sorted(call.ints, call.args[3]) => (call.swaps = 0 /\ call.out = call.ints)
        /\ again.swaps = 0
        /\ again.out = call.out
\* The sort was given MaxSort values already in order, two of them equal and
\* two of them not, and called the comparator on them.
C14_Witness ==
    /\ call.op = "math_sort_array_with_callback" /\ ~SortRefused(call)
    /\ call.args[2] = MaxSort /\ Sorted(call.ints, call.args[3])
    /\ \E i \in 1..(MaxSort - 1) : call.ints[i] = call.ints[i + 1]
    /\ call.ints[1] # call.ints[MaxSort]
    /\ call.compares > 0 /\ call.swaps = 0 /\ call.out = call.ints

\* ---- C15
\* The order of two floating-point values given as ratios of positive integers.
Less(p, q) == p[1] * q[2] < q[1] * p[2]
\* The process was given no buffer, no hook or no element.
ProcessRefused(c) == c.args[1] = NULL \/ c.args[3] = NULL \/ c.args[2] = 0
\* C15: math_process_with_progress, given a buffer of n >= 1 values and a hook,
\* calls the hook n times; the k-th call is made when the elements 0..k-1 are
\* doubled and the elements k.. are not, and is given k/n, so what the hook is
\* given increases strictly, lies in (0, 1] and ends with 1; on return every
\* element is twice what it was and the register is Success.  With no buffer,
\* no hook or n = 0 the hook is not called, the buffer is as it was and the
\* register is NullReference.
C15_ProgressPerElement ==
    call.op = "math_process_with_progress" =>
        IF ProcessRefused(call)
        THEN /\ math_last_error = MATH_ERROR_NULL_POINTER
             /\ call.log = <<>>
             /\ call.out = call.ints
        ELSE LET n == call.args[2] IN
             /\ math_last_error = MATH_SUCCESS
             /\ Len(call.log) = n
             /\ \A k \in 1..n :
                   /\ call.log[k].prog = Ratio(k, n)
                   /\ Less(Zero, call.log[k].prog)
                   /\ ~Less(Ratio(1, 1), call.log[k].prog)
                   /\ \A i \in 1..n :
                         call.log[k].seen[i] = IF i <= k THEN 2 * call.ints[i] ELSE call.ints[i]
             /\ \A k \in 1..(n - 1) : Less(call.log[k].prog, call.log[k + 1].prog)
             /\ ~Less(call.log[n].prog, Ratio(1, 1))
             /\ Len(call.out) = n
             /\ \A i \in 1..n : call.out[i] = 2 * call.ints[i]
\* A buffer of MaxLen values has been processed, the hook called for each.
C15_Witness ==
    /\ call.op = "math_process_with_progress" /\ ~ProcessRefused(call)
    /\ call.args[2] = MaxLen /\ Len(call.log) = MaxLen
    /\ call.log[1].seen[1] = 2 * call.ints[1]
    /\ call.log[1].seen[MaxLen] = call.ints[MaxLen]
    /\ call.log[MaxLen].prog = Ratio(MaxLen, MaxLen)
    /\ math_last_error = MATH_SUCCESS

\* ---- C16
\* The operations of the model that return a value.
ValueReturning ==
    (MathFallible \cup StringFallible)
        \ (Hooked \cup {"math_destroy_point_array", "string_array_destroy"})
\* The call c returned the sentinel of its operation: -1 from an append, an
\* absent reference where a pointer is returned, 0 or 0.0 where a number is.
Sentinel(c) ==
    CASE c.op \in {"math_add_point", "string_array_add"} -> c.ret = -1
      [] c.op \in {"math_create_point_array", "string_array_create",
                   "string_array_get", "string_duplicate", "math_string_reverse",
                   "string_concatenate", "string_substring", "string_to_upper",
                   "string_to_lower", "string_trim", "string_format_int",
                   "string_format_float"} -> c.ret = NULL /\ c.made = <<>>
      [] c.op = "math_get_point" -> c.elem = NullElem
      [] c.op \in {"math_divide", "math_average_array", "math_power", "math_sqrt",
                   "math_distance_2d", "math_distance_3d", "math_circle_area",
                   "math_circle_circumference", "string_parse_float"} ->
             c.quot = Zero /\ c.pi = 0
      [] OTHER -> c.ret = 0
\* The call c, made in the current state, does not meet a precondition.
Fails(c) == ~Succeeds(c)
\* The register of the library the operation op belongs to holds Success.
LeftSuccess(op, m, s) == IF op \in MathFallible THEN m = MATH_SUCCESS ELSE s = STRING_SUCCESS
\* C16: every failing call of an operation that returns a value returns the
\* operation's sentinel and leaves a kind other than Success in the register;
\* no call that leaves such a kind returns anything else; math_divide(a, 0)
\* returns 0 and leaves DivisionByZero, whatever a is.
C16_FailSoftSentinels ==
    /\ []((call.op \in ValueReturning
             /\ ~LeftSuccess(call.op, math_last_error, string_last_error))
                => Sentinel(call))
    /\ []((call.op = "math_divide" /\ call.args[2] = 0)
                => (call.quot = Zero /\ math_last_error = MATH_ERROR_DIVISION_BY_ZERO))
    /\ [][(call'.op \in ValueReturning /\ Fails(call'))
              => (/\ ~LeftSuccess(call'.op, math_last_error', string_last_error')
                  /\ Sentinel(call'))]_vars
\* string_parse_int was given a digit followed by something else: strtol made
\* a number of the digit, and the call returned 0 with ParseError.
C16_Witness ==
    /\ call.op = "string_parse_int" /\ call.args[1] # NULL
    /\ call.bytes[1] = 49 /\ strtol(call.bytes).ret # 0
    /\ call.ret = 0 /\ string_last_error = STRING_ERROR_PARSE_ERROR

\* ---- C17
MathOps == MathFallible \cup {"math_get_last_error", "math_get_error_message"}
StringOps == StringFallible \cup {"string_get_last_error", "string_get_error_message"}
\* C17: in a program that calls both libraries in any order, no call into
\* string_utils.c changes what math_get_last_error() returns and no call into
\* math_library.c changes what string_get_last_error() returns.
C17_SeparateRegisters ==
    [][/\ call'.op \in StringOps =>
             /\ math_last_error' = math_last_error
             /\ (math_get_last_error.ret)' = math_get_last_error.ret
       /\ call'.op \in MathOps =>
             /\ string_last_error' = string_last_error
             /\ (string_get_last_error.ret)' = string_get_last_error.ret
      ]_vars
\* string_array_size has just failed with NullReference while the math
\* library's register still holds the DivisionByZero of an earlier math_divide.
C17_Witness ==
    /\ test = "both"
    /\ call.op = "string_array_size" /\ call.args[1] = NULL
    /\ string_get_last_error.ret = STRING_ERROR_NULL_POINTER
    /\ math_get_last_error.ret = MATH_ERROR_DIVISION_BY_ZERO

====
